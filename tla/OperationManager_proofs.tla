----------------------- MODULE OperationManager_proofs -----------------------
(* Proofs about OperationManager for every value of its constants.         *)
EXTENDS OperationInvariant, TLAPS

-----------------------------------------------------------------------------
(* Typing                                                                  *)

(* The record an operation is recovered to is a record again, and a        *)
(* terminal one.                                                           *)
LEMMA RecoveredType ==
    ASSUME NEW r \in Record \cup {Absence}
    PROVE  /\ Recovered(r) \in Record \cup {Absence}
           /\ Recovered(r).st \in TerminalStatus \cup {"none"}
           /\ Recovered(r).st = "none" <=> r.st = "none"
  BY DEF Recovered, Record, Absence, Status, TerminalStatus, ReconcileState

(* What a save leaves on disk is well typed whether or not it succeeds.    *)
LEMMA SaveType ==
    ASSUME disk \in [OpIds -> Record \cup {Absence}], faults \in Nat,
           NEW i, NEW r \in Record, SaveOK(i, r) \/ SaveFails(i, r)
    PROVE  /\ disk' \in [OpIds -> Record \cup {Absence}]
           /\ faults' \in Nat
  <1>1. disk' \in [OpIds -> Record \cup {Absence}]
    BY DEF SaveOK, SaveFails
  <1>2. faults' \in Nat
    BY DEF SaveOK, SaveFails
  <1> QED BY <1>1, <1>2

(* The ways a goroutine's state is updated keep its type.                  *)
LEMMA WorkerGoTo ==
    ASSUME worker \in [Workers -> WorkerState], NEW w \in Workers, NEW pc \in Pc
    PROVE  [worker EXCEPT ![w].pc = pc] \in [Workers -> WorkerState]
  <1>1. [worker[w] EXCEPT !.pc = pc] \in WorkerState
    BY DEF WorkerState
  <1> QED BY <1>1

(* A goroutine that pops a job keeps a well-typed state.                   *)
LEMMA WorkerTake ==
    ASSUME worker \in [Workers -> WorkerState], NEW w \in Workers, NEW pc \in Pc,
           NEW op \in OpIds
    PROVE  [worker EXCEPT ![w].pc = pc, ![w].op = op] \in [Workers -> WorkerState]
  <1>1. [worker[w] EXCEPT !.pc = pc, !.op = op] \in WorkerState
    BY DEF WorkerState
  <1> QED BY <1>1

(* So does one that learns an exit code or a receipt answer.               *)
LEMMA WorkerLearn ==
    ASSUME worker \in [Workers -> WorkerState], NEW w \in Workers, NEW pc \in Pc,
           NEW out \in Out
    PROVE  [worker EXCEPT ![w].pc = pc, ![w].out = out] \in [Workers -> WorkerState]
  <1>1. [worker[w] EXCEPT !.pc = pc, !.out = out] \in WorkerState
    BY DEF WorkerState
  <1> QED BY <1>1

(* And one that returns to the loop of runTarget.                          *)
LEMMA WorkerLoop ==
    ASSUME NEW t \in Targets
    PROVE  /\ Idle \in WorkerState
           /\ Looping(t) \in WorkerState
  BY DEF Idle, Looping, WorkerState, Pc, Out

(* The idle state of a goroutine slot is well typed.                       *)
LEMMA WorkerIdle == Idle \in WorkerState
  BY DEF Idle, WorkerState, Pc, Out

(* finishReconciled keeps the types.                                       *)
LEMMA FinishType ==
    ASSUME TypeOK, WorkersWellFormed, NEW w \in Workers,
           NEW st \in TerminalStatus, NEW rec \in ReconcileState \cup {"nil"},
           worker[w].pc # "idle", Finish(w, st, rec)
    PROVE  TypeOK'
  <1>1. [st |-> st, rec |-> rec] \in Record
    BY DEF Record, Status, TerminalStatus
  <1>2. disk' \in [OpIds -> Record \cup {Absence}] /\ faults' \in Nat
        /\ recordErr' \in BOOLEAN /\ mem' \in [OpIds -> Record \cup {Absence}]
    BY <1>1, SaveType DEF Finish, SaveAdvisory, TypeOK
  <1>3. worker' \in [Workers -> WorkerState]
    <2>1. worker[w].target \in Targets
      BY DEF WorkersWellFormed
    <2>2. worker \in [Workers -> WorkerState]
      BY DEF TypeOK
    <2> QED BY <2>1, <2>2, WorkerLoop DEF Finish
  <1> QED
    BY <1>2, <1>3 DEF Finish, TypeOK, cancelVars, reconVars, targetVars, histVars

(* Moving the program counter of a goroutine keeps the types.              *)
LEMMA StepOnlyType ==
    ASSUME TypeOK, NEW w \in Workers, NEW pc \in Pc, StepOnly(w, pc)
    PROVE  TypeOK'
  <1>1. worker' \in [Workers -> WorkerState]
    BY WorkerGoTo DEF StepOnly, GoTo, TypeOK
  <1> QED
    BY <1>1 DEF StepOnly, TypeOK, recordVars, cancelVars, reconVars, targetVars,
                histVars, boundVars

(* Every step keeps the types.                                             *)
LEMMA NextType ==
    ASSUME TypeOK, WorkersWellFormed, KnownIds, Next
    PROVE  TypeOK'
  <1> USE DEF recordVars, execVars, cancelVars, reconVars, targetVars, histVars, boundVars
  <1>0. /\ worker \in [Workers -> WorkerState]
        /\ {"exec", "unsaved", "returned", "receipt"} \subseteq Pc
        /\ {"succeeded", "failed"} \subseteq Out
    BY DEF TypeOK, Pc, Out
  <1>1. ASSUME NEW c \in Clients, NEW r \in Requests, NEW p \in Principals,
               NEW k \in Keys \cup {None},
               Enqueue(c, [req |-> r, principal |-> p, key |-> k, retryOf |-> None])
        PROVE  TypeOK'
    <2>1. client' \in [Clients -> Call \cup {None}]
      BY <1>1 DEF Enqueue, TypeOK, Call
    <2>2. index' \in [Namespaces -> OpIds \cup {None}]
      BY <1>1 DEF Enqueue, DropStale, TypeOK
    <2> QED BY <1>1, <2>1, <2>2 DEF Enqueue, TypeOK
  <1>2. ASSUME NEW c \in Clients, NEW i \in OpIds, NEW p \in Principals, Retry(c, i, p)
        PROVE  TypeOK'
    <2>1. attr[i] \in Attr
      BY <1>2 DEF Retry, Retryable, Terminal, KnownIds, Fresh, Exists, TypeOK, TerminalStatus
    <2>2. client' \in [Clients -> Call \cup {None}]
      BY <1>2, <2>1 DEF Retry, TypeOK, Call, Attr
    <2> QED BY <1>2, <2>2 DEF Retry, TypeOK
  <1>3. ASSUME NEW c \in Clients, Refuse(c)
        PROVE  TypeOK'
    <2>1. index' \in [Namespaces -> OpIds \cup {None}]
      BY <1>3 DEF Refuse, DropStale, TypeOK
    <2>2. client' \in [Clients -> Call \cup {None}]
      BY <1>3 DEF Refuse, TypeOK
    <2> QED BY <1>3, <2>1, <2>2 DEF Refuse, TypeOK
  <1>4. ASSUME NEW c \in Clients, NEW i \in OpIds, Admit(c, i)
        PROVE  TypeOK'
    <2> DEFINE call == client[c]
               q == [st |-> "queued", rec |-> "nil"]
    <2>1. call \in Call
      BY <1>4 DEF Admit, TypeOK
    <2>2. q \in Record
      BY DEF Record, Status
    <2>3. disk' \in [OpIds -> Record \cup {Absence}] /\ faults' \in Nat
      BY <1>4, <2>2, SaveType DEF Admit, TypeOK
    <2>4. attr' \in [OpIds -> Attr \cup {None}] /\ admissionSeq' \in Nat
      BY <1>4, <2>1 DEF Admit, TypeOK, Attr, Call
    <2>5. call.req.target \in Targets
      BY <2>1, ConstantsAssumption DEF Call
    <2>6. /\ runner' \in [Targets -> [queue: Seq(OpIds), busy: BOOLEAN]]
          /\ worker' \in [Workers -> WorkerState]
      <3>1. CASE UNCHANGED <<runner, worker>>
        BY <3>1 DEF TypeOK
      <3>2. CASE AdmitToTarget(call.req.target, i)
        <4>1. runner' \in [Targets -> [queue: Seq(OpIds), busy: BOOLEAN]]
          BY <3>2, <2>5 DEF AdmitToTarget, TypeOK
        <4>2. worker' \in [Workers -> WorkerState]
          <5>1. worker \in [Workers -> WorkerState]
            BY DEF TypeOK
          <5> QED BY <3>2, <2>5, <5>1, WorkerLoop DEF AdmitToTarget
        <4> QED BY <4>1, <4>2
      <3> QED BY <1>4, <3>1, <3>2 DEF Admit
    <2>7. index' \in [Namespaces -> OpIds \cup {None}]
      BY ZenonT(60), <1>4 DEF Admit, DropStale, TypeOK
    <2>8. mem' \in [OpIds -> Record \cup {Absence}] /\ recordErr' \in BOOLEAN
          /\ acked' \subseteq OpIds /\ client' \in [Clients -> Call \cup {None}]
      BY ZenonT(60), <1>4, <2>2 DEF Admit, TypeOK
    <2> QED BY <1>4, <2>3, <2>4, <2>6, <2>7, <2>8 DEF Admit, TypeOK
  <1>5. ASSUME NEW w \in Workers, Pop(w)
        PROVE  TypeOK'
    <2>1. worker[w].target \in Targets
      BY <1>5 DEF Pop, At, WorkersWellFormed
    <2> DEFINE q == runner[worker[w].target].queue
    <2>2. q \in Seq(OpIds) /\ q # << >>
      BY <1>5, <2>1 DEF Pop, TypeOK
    <2>3. Head(q) \in OpIds /\ Tail(q) \in Seq(OpIds)
      BY <2>2
    <2>4. runner' \in [Targets -> [queue: Seq(OpIds), busy: BOOLEAN]]
      BY <1>5, <2>1, <2>3 DEF Pop, TypeOK
    <2>5. worker' \in [Workers -> WorkerState]
      BY <1>5, <2>3, WorkerTake DEF Pop, TypeOK, Pc
    <2> QED BY <1>5, <2>4, <2>5 DEF Pop, TypeOK
  <1>6. ASSUME NEW w \in Workers, Drain(w)
        PROVE  TypeOK'
    <2>1. runner' \in [Targets -> [queue: Seq(OpIds), busy: BOOLEAN]]
      BY <1>6 DEF Drain, TypeOK
    <2>2. worker' \in [Workers -> WorkerState]
      BY <1>6, WorkerIdle DEF Drain, TypeOK
    <2> QED BY <1>6, <2>1, <2>2 DEF Drain, TypeOK
  <1>7. ASSUME NEW w \in Workers, CheckContext(w)
        PROVE  TypeOK'
    BY <1>7, FinishType, StepOnlyType DEF CheckContext, At, Pc, TerminalStatus
  <1>8. ASSUME NEW w \in Workers, AcquireSlot(w)
        PROVE  TypeOK'
    BY <1>8, FinishType, StepOnlyType DEF AcquireSlot, At, Pc, TerminalStatus
  <1>9. ASSUME NEW w \in Workers, CheckTarget(w)
        PROVE  TypeOK'
    BY <1>9, FinishType, StepOnlyType DEF CheckTarget, At, Pc, TerminalStatus
  <1>10. ASSUME NEW w \in Workers, SetRunning(w)
         PROVE  TypeOK'
    <2> DEFINE i == worker[w].op
               r == [st |-> "running", rec |-> "nil"]
    <2>1. CASE mem[i].st = "cancel_requested"
      BY <1>10, <2>1, FinishType DEF SetRunning, At, TerminalStatus
    <2>2. CASE mem[i].st # "cancel_requested"
      <3>1. r \in Record
        BY DEF Record, Status
      <3>2. worker' \in [Workers -> WorkerState]
        <4>1. \/ worker' = [worker EXCEPT ![w].pc = "exec"]
              \/ worker' = [worker EXCEPT ![w].pc = "unsaved"]
          BY <1>10, <2>2 DEF SetRunning, GoTo
        <4> QED BY <4>1, <1>0, WorkerGoTo
      <3>3. disk' \in [OpIds -> Record \cup {Absence}] /\ faults' \in Nat
        BY <1>10, <2>2, <3>1, SaveType DEF SetRunning, TypeOK
      <3>4. mem' \in [OpIds -> Record \cup {Absence}] /\ recordErr' \in BOOLEAN
        BY ZenonT(60), <1>10, <2>2, <3>1 DEF SetRunning, TypeOK
      <3>5. starts' \in [OpIds -> Nat]
        BY <1>10, <2>2 DEF SetRunning, TypeOK
      <3> QED BY <1>10, <2>2, <3>2, <3>3, <3>4, <3>5 DEF SetRunning, TypeOK
    <2> QED BY <2>1, <2>2
  <1>11. ASSUME NEW w \in Workers, FailUnsaved(w)
         PROVE  TypeOK'
    BY <1>11, FinishType DEF FailUnsaved, At, TerminalStatus
  <1>12. ASSUME NEW w \in Workers, EffectLands(w)
         PROVE  TypeOK'
    <2> DEFINE i == worker[w].op
    <2>1. i \in OpIds /\ attr[i] \in Attr
      BY <1>12 DEF EffectLands, At, WorkersWellFormed, KnownIds, TypeOK, WorkerState, Fresh
    <2>2. attr[i].req \in Requests
      BY <2>1 DEF Attr
    <2>3. installed' \in [Targets -> Images \cup {Absent, None}]
      BY <1>12, <2>2, ConstantsAssumption DEF EffectLands, EffectOf, TypeOK
    <2> QED BY <1>12, <2>1, <2>3 DEF EffectLands, TypeOK
  <1>13. ASSUME NEW w \in Workers, ExecReturn(w)
         PROVE  TypeOK'
    <2>1. worker' \in [Workers -> WorkerState]
      <3>1. PICK out \in {"succeeded", "failed"} :
                worker' = [worker EXCEPT ![w].pc = "returned", ![w].out = out]
        BY <1>13 DEF ExecReturn
      <3> QED BY <3>1, <1>0, WorkerLearn
    <2> QED BY <1>13, <2>1 DEF ExecReturn, TypeOK
  <1>14. ASSUME NEW w \in Workers, AfterExec(w)
         PROVE  TypeOK'
    <2> DEFINE r == [st |-> "stopping", rec |-> "nil"]
    <2>1. CASE worker[w].op \notin ctxDone
      BY <1>14, <2>1, StepOnlyType DEF AfterExec, Pc
    <2>2. CASE worker[w].op \in ctxDone
      <3>1. r \in Record
        BY DEF Record, Status
      <3>2. worker' \in [Workers -> WorkerState]
        BY <1>14, <2>2, <1>0, WorkerGoTo DEF AfterExec, GoTo
      <3>3. disk' \in [OpIds -> Record \cup {Absence}] /\ faults' \in Nat
        BY <1>14, <2>2, <3>1, SaveType DEF AfterExec, SaveAdvisory, TypeOK
      <3>4. mem' \in [OpIds -> Record \cup {Absence}] /\ recordErr' \in BOOLEAN
        BY <1>14, <2>2, <3>1 DEF AfterExec, SaveAdvisory, TypeOK
      <3> QED BY <1>14, <2>2, <3>2, <3>3, <3>4 DEF AfterExec, TypeOK
    <2> QED BY <2>1, <2>2
  <1>15. ASSUME NEW w \in Workers, FinishDecided(w)
         PROVE  TypeOK'
    <2>1. worker[w].out \in TerminalStatus
      BY <1>15 DEF FinishDecided, At, WorkersWellFormed, TerminalStatus
    <2> QED BY <1>15, <2>1, FinishType DEF FinishDecided, At
  <1>16. ASSUME NEW w \in Workers, ReadReceipt(w)
         PROVE  TypeOK'
    <2>1. PICK a : worker' = [worker EXCEPT ![w].pc = "answered", ![w].out = a]
                   /\ a \in ReconcileState
      BY <1>16 DEF ReadReceipt, ReceiptAnswers, ReconcileState
    <2>2. worker' \in [Workers -> WorkerState]
      BY <2>1, WorkerLearn DEF TypeOK, Pc, Out
    <2> QED BY <1>16, <2>2 DEF ReadReceipt, TypeOK
  <1>17. ASSUME NEW w \in Workers, FinishCanceled(w)
         PROVE  TypeOK'
    <2>1. worker[w].out \in ReconcileState
      BY <1>17 DEF FinishCanceled, At, WorkersWellFormed
    <2> QED BY <1>17, <2>1, FinishType DEF FinishCanceled, At, TerminalStatus
  <1>18. ASSUME NEW i \in OpIds, Cancel(i)
         PROVE  TypeOK'
    <2> DEFINE r == [mem[i] EXCEPT !.st = "cancel_requested"]
    <2>1. mem[i] \in Record
      BY <1>18 DEF Cancel, Cancelable, Live, Exists, TypeOK, Absence
    <2>2. r \in Record
      BY <2>1 DEF Record, Status
    <2>3. disk' \in [OpIds -> Record \cup {Absence}] /\ faults' \in Nat
      BY <1>18, <2>2, SaveType DEF Cancel, TypeOK
    <2>4. mem' \in [OpIds -> Record \cup {Absence}] /\ recordErr' \in BOOLEAN
      <3>1. /\ mem' = [mem EXCEPT ![i] = r] \/ mem' = mem
            /\ recordErr' \in BOOLEAN
        BY <1>18 DEF Cancel
      <3>2. mem \in [OpIds -> Record \cup {Absence}]
        BY DEF TypeOK
      <3> HIDE DEF r
      <3> QED BY <3>1, <3>2, <2>2
    <2>5. cancelling' \subseteq OpIds /\ cancelAcked' \subseteq OpIds
      BY <1>18 DEF Cancel, TypeOK
    <2> QED BY <1>18, <2>3, <2>4, <2>5 DEF Cancel, TypeOK
  <1>19. ASSUME NEW i \in OpIds, FireCancel(i)
         PROVE  TypeOK'
    BY <1>19 DEF FireCancel, TypeOK
  <1>20. ASSUME NEW i \in OpIds, ReconcileRead(i)
         PROVE  TypeOK'
    <2>1. recon' \in [op: OpIds, answer: ReconcileState] \cup {None}
      BY <1>20 DEF ReconcileRead, ReceiptAnswers, ReconcileState, TypeOK
    <2> QED BY <1>20, <2>1 DEF ReconcileRead, TypeOK
  <1>21. CASE ReconcileRecord
    <2> DEFINE r == [mem[recon.op] EXCEPT !.rec = recon.answer]
    <2>1. recon.op \in OpIds /\ recon.answer \in ReconcileState
      BY <1>21 DEF ReconcileRecord, TypeOK
    <2>2. CASE ~Recordable(recon)
      BY <1>21, <2>2 DEF ReconcileRecord, TypeOK
    <2>3. CASE Recordable(recon)
      <3>1. mem[recon.op] \in Record
        BY <2>1, <2>3 DEF Recordable, Reconciling, TypeOK, Absence
      <3>2. r \in Record
        BY <2>1, <3>1 DEF Record
      <3>3. disk' \in [OpIds -> Record \cup {Absence}] /\ faults' \in Nat
        BY <1>21, <2>3, <3>2, SaveType DEF ReconcileRecord, TypeOK
      <3>4. mem' \in [OpIds -> Record \cup {Absence}] /\ recordErr' \in BOOLEAN
        BY <1>21, <2>3, <3>2 DEF ReconcileRecord, TypeOK
      <3> QED BY <1>21, <3>3, <3>4 DEF ReconcileRecord, TypeOK
    <2> QED BY <2>2, <2>3
  <1>22. CASE ReconcileAbandon
    BY <1>22 DEF ReconcileAbandon, TypeOK
  <1>23. CASE Sweep
    <2>1. disk' \in [OpIds -> Record \cup {Absence}]
      BY <1>23 DEF Sweep, TypeOK
    <2>2. sweeping' \subseteq OpIds
      BY <1>23 DEF Sweep
    <2> QED BY <1>23, <2>1, <2>2 DEF Sweep, TypeOK
  <1>24. CASE Retire
    <2>1. mem' \in [OpIds -> Record \cup {Absence}]
      BY <1>24 DEF Retire, TypeOK
    <2>2. index' \in [Namespaces -> OpIds \cup {None}]
      BY <1>24 DEF Retire, TypeOK
    <2> QED BY <1>24, <2>1, <2>2 DEF Retire, TypeOK
  <1>25. CASE Seal \/ ForceCancel \/ Tick
    BY <1>25 DEF Seal, ForceCancel, Tick, TypeOK
  <1>26. CASE Exit \/ Crash
    <2>1. LoseMemory
      BY <1>26 DEF Exit, Crash
    <2>2. /\ mem' \in [OpIds -> Record \cup {Absence}]
          /\ index' \in [Namespaces -> OpIds \cup {None}]
          /\ client' \in [Clients -> Call \cup {None}]
          /\ worker' \in [Workers -> WorkerState]
      BY <2>1, WorkerIdle DEF LoseMemory
    <2>3. runner' \in [Targets -> [queue: Seq(OpIds), busy: BOOLEAN]]
      BY <2>1 DEF LoseMemory
    <2>4. /\ phase' \in {"down", "up", "closing", "forced"} /\ crashes' \in Nat
          /\ ctxDone' \subseteq OpIds /\ cancelling' \subseteq OpIds
          /\ pending' \subseteq OpIds /\ sweeping' \subseteq OpIds
          /\ recon' = None /\ admissionSeq' \in Nat
      <3>1. crashes \in Nat
        BY DEF TypeOK
      <3> QED BY <2>1, <3>1 DEF LoseMemory
    <2>6. recordErr' \in BOOLEAN
      BY <2>1 DEF LoseMemory
    <2>5. UNCHANGED <<attr, disk, installed, landed, starts, acked, cancelAcked,
                      clock, faults>>
      BY <2>1 DEF LoseMemory
    <2> QED BY <2>2, <2>3, <2>4, <2>5, <2>6 DEF TypeOK
  <1>27. CASE Restart
    <2>1. disk' \in [OpIds -> Record \cup {Absence}]
      BY <1>27, RecoveredType DEF Restart, TypeOK
    <2>2. mem' \in [OpIds -> Record \cup {Absence}]
      BY <1>27, <2>1 DEF Restart
    <2>3. admissionSeq' \in Nat
      <3>1. \A i \in Records : attr[i].seq \in Nat
        BY DEF Records, KnownIds, Fresh, TypeOK, Attr
      <3> QED BY <1>27, <3>1 DEF Restart
    <2>4. index' \in [Namespaces -> OpIds \cup {None}] /\ pending' \subseteq OpIds
      BY <1>27 DEF Restart
    <2> QED BY <1>27, <2>1, <2>2, <2>3, <2>4 DEF Restart, TypeOK
  <1>28. CASE RestartFails
    <2>1. disk' \in [OpIds -> Record \cup {Absence}]
      BY <1>28, RecoveredType DEF RestartFails, TypeOK
    <2> QED BY <1>28, <2>1 DEF RestartFails, TypeOK
  <1> QED
    BY <1>1, <1>2, <1>3, <1>4, <1>5, <1>6, <1>7, <1>8, <1>9, <1>10, <1>11, <1>12,
       <1>13, <1>14, <1>15, <1>16, <1>17, <1>18, <1>19, <1>20, <1>21, <1>22, <1>23,
       <1>24, <1>25, <1>26, <1>27, <1>28 DEF Next, WorkerStep

-----------------------------------------------------------------------------
(* The inductive invariant                                                 *)

(* The value for "nothing" is neither an operation nor a target.           *)
LEMMA NoneIsNoId == None \notin OpIds /\ None \notin Targets
  BY ConstantsAssumption

(* Steps that leave the records in memory, the queues and the goroutines   *)
(* alone.                                                                  *)
LEMMA QuietStep ==
    ASSUME IInv, KnownIds', phase' = "down" => phase = "down",
           UNCHANGED <<attr, mem, runner, worker, starts, acked, cancelAcked>>
    PROVE  IInv'
  <1>1. WorkersWellFormed' /\ RunnersWellFormed'
    BY DEF IInv, WorkersWellFormed, RunnersWellFormed
  <1>2. QueuesWellFormed'
    BY DEF IInv, QueuesWellFormed, Fresh, TargetOf
  <1>3. HeldWellFormed'
    BY DEF IInv, HeldWellFormed, Fresh, TargetOf, Live, Exists, Terminal
  <1>4. NothingStranded'
    BY DEF IInv, NothingStranded, Live, Exists, Terminal, InQueue, Held
  <1>5. HistoryOK'
    BY DEF IInv, HistoryOK, NoSecondStart, OnlyAckedStart, CancelBeforeStartHonored
  <1> QED BY <1>1, <1>2, <1>3, <1>4, <1>5 DEF IInv

(* Two goroutines never hold the same job.                                 *)
LEMMA HeldApart ==
    ASSUME TypeOK, IInv, NEW v \in Workers, NEW w \in Workers, v # w,
           worker[w].op # None
    PROVE  worker[v].op # worker[w].op
  <1> SUFFICES ASSUME worker[v].op = worker[w].op PROVE FALSE
    OBVIOUS
  <1>1. worker[v].target = worker[w].target
    BY DEF IInv, HeldWellFormed
  <1>2. worker[w].target \in Targets
    BY DEF IInv, WorkersWellFormed
  <1> QED BY <1>1, <1>2 DEF IInv, RunnersWellFormed

(* Steps of a goroutine that keeps its job: what it says of the job is the *)
(* only thing that has to be checked again.                                *)
LEMMA HeldStep ==
    ASSUME TypeOK, IInv, NEW w \in Workers, worker[w].op # None,
           \A v \in Workers : /\ worker'[v].target = worker[v].target
                              /\ worker'[v].op = worker[v].op
                              /\ v # w => worker'[v] = worker[v],
           \A i \in OpIds : i # worker[w].op =>
                /\ mem'[i] = mem[i] /\ starts'[i] = starts[i]
                /\ disk[i].st = "none" => disk'[i].st = "none",
           UNCHANGED <<phase, attr, runner, acked, cancelAcked, pending, recon>>,
           worker'[w].pc \notin {"idle", "loop"},
           worker'[w].pc \in {"returned", "decided"} => worker'[w].out \in {"succeeded", "failed"},
           worker'[w].pc = "answered" => worker'[w].out \in ReconcileState,
           Live(worker[w].op)', mem'[worker[w].op].st # "queued" \/ mem' = mem,
           worker'[w].pc \in BeforeStart =>
                mem'[worker[w].op].st \in Waiting /\ starts'[worker[w].op] = 0,
           worker'[w].pc = "unsaved" =>
                mem'[worker[w].op].st # "queued" /\ starts'[worker[w].op] = 0,
           worker'[w].pc \in AfterStart => mem'[worker[w].op].st # "queued",
           starts'[worker[w].op] <= 1,
           worker[w].op \in cancelAcked => starts'[worker[w].op] = 0
    PROVE  IInv'
  <1> DEFINE j == worker[w].op
  <1>0. j \in OpIds /\ ~Fresh(j) /\ j \in acked /\ Live(j) /\ phase # "down"
    BY DEF IInv, HeldWellFormed, TypeOK, WorkerState, NothingStranded, Live
  <1>1. WorkersWellFormed'
    BY DEF IInv, WorkersWellFormed
  <1>2. KnownIds'
    BY <1>0 DEF IInv, KnownIds, Fresh, Exists
  <1>3. RunnersWellFormed'
    BY DEF IInv, RunnersWellFormed
  <1>4. QueuesWellFormed'
    BY <1>0 DEF IInv, QueuesWellFormed, Fresh, TargetOf, TypeOK
  <1>5. HeldWellFormed'
    <2> SUFFICES ASSUME NEW v \in Workers, worker'[v].op # None
                 PROVE  HeldWellFormed!(v)'
      BY DEF HeldWellFormed
    <2>1. CASE v = w
      BY <1>0, <2>1 DEF Fresh, TargetOf, IInv, HeldWellFormed
    <2>2. CASE v # w
      <3>1. worker[v].op # j /\ worker[v].op \in OpIds
        BY <2>2, HeldApart DEF TypeOK, WorkerState
      <3> QED BY <2>2, <3>1 DEF IInv, HeldWellFormed, Fresh, TargetOf, Live, Exists, Terminal
    <2> QED BY <2>1, <2>2
  <1>6. NothingStranded'
    BY <1>0 DEF IInv, NothingStranded, Live, Exists, Terminal, InQueue, Held
  <1>7. HistoryOK'
    <2>1. \A i \in OpIds : starts'[i] <= 1 /\ (starts'[i] > 0 => i \in acked)
      BY <1>0 DEF IInv, HistoryOK, NoSecondStart, OnlyAckedStart
    <2>2. \A i \in cancelAcked : starts'[i] = 0 /\ mem'[i].st # "queued"
      BY <1>0 DEF IInv, HistoryOK, CancelBeforeStartHonored, TypeOK
    <2> QED BY <2>1, <2>2 DEF HistoryOK, NoSecondStart, OnlyAckedStart, CancelBeforeStartHonored
  <1> QED BY <1>1, <1>2, <1>3, <1>4, <1>5, <1>6, <1>7 DEF IInv

(* A goroutine that finishes its job holds nothing, and nothing else is    *)
(* disturbed.                                                              *)
LEMMA FinishStep ==
    ASSUME TypeOK, IInv, NEW w \in Workers, worker[w].op # None,
           NEW st \in TerminalStatus, NEW rec \in ReconcileState \cup {"nil"},
           Finish(w, st, rec)
    PROVE  IInv'
  <1> USE DEF cancelVars, reconVars, targetVars, histVars
  <1> DEFINE j == worker[w].op
  <1>0. /\ j \in OpIds /\ ~Fresh(j) /\ j \in acked /\ Live(j) /\ phase # "down"
        /\ worker[w].target \in Targets /\ worker[w].pc # "idle"
    BY DEF IInv, HeldWellFormed, TypeOK, WorkerState, NothingStranded, Live,
           WorkersWellFormed, Idle
  <1>1. /\ mem' = [mem EXCEPT ![j] = [st |-> st, rec |-> rec]]
        /\ \A i \in OpIds : i # j => mem'[i] = mem[i] /\ disk'[i] = disk[i]
        /\ mem'[j].st \in TerminalStatus
    BY <1>0 DEF Finish, SaveAdvisory, SaveOK, SaveFails, TypeOK
  <1>2. /\ UNCHANGED <<phase, attr, runner, pending, recon, starts, acked, cancelAcked>>
        /\ worker' = [worker EXCEPT ![w] = [pc |-> "loop", target |-> worker[w].target,
                                           op |-> None, out |-> None]]
    BY DEF Finish, Looping
  <1>3. \A v \in Workers : worker'[v].target = worker[v].target
                           /\ (v # w => worker'[v] = worker[v])
                           /\ worker'[w].op = None /\ worker'[w].pc = "loop"
    BY <1>2 DEF TypeOK, WorkerState
  <1>4. \A v \in Workers : v # w => worker[v].op # j
    BY HeldApart
  <1>5. WorkersWellFormed'
    BY <1>0, <1>3 DEF IInv, WorkersWellFormed
  <1>6. KnownIds'
    BY <1>0, <1>1, <1>2, <1>3, NoneIsNoId DEF IInv, KnownIds, Fresh, Exists
  <1>7. RunnersWellFormed'
    BY <1>2, <1>3 DEF IInv, RunnersWellFormed
  <1>8. QueuesWellFormed'
    <2> SUFFICES ASSUME NEW t \in Targets, NEW n \in DOMAIN runner[t].queue
                 PROVE  QueuesWellFormed!(t)!(n)'
      BY <1>2 DEF QueuesWellFormed
    <2> DEFINE i == runner[t].queue[n]
    <2>1. i \in OpIds /\ i # j
      BY DEF IInv, QueuesWellFormed, TypeOK
    <2>2. i # None
      BY <2>1, NoneIsNoId
    <2> QED BY <1>1, <1>2, <1>3, <2>1, <2>2 DEF IInv, QueuesWellFormed, Fresh, TargetOf
  <1>9. HeldWellFormed'
    <2> SUFFICES ASSUME NEW v \in Workers, worker'[v].op # None
                 PROVE  HeldWellFormed!(v)'
      BY DEF HeldWellFormed
    <2>1. v # w /\ worker[v].op \in OpIds /\ worker[v].op # j
      BY <1>3, <1>4 DEF TypeOK, WorkerState
    <2> QED BY <1>1, <1>2, <1>3, <2>1
            DEF IInv, HeldWellFormed, Fresh, TargetOf, Live, Exists, Terminal
  <1>10. NothingStranded'
    <2>1. ASSUME NEW i \in OpIds, Live(i)'
          PROVE  InQueue(i)' \/ Held(i)'
      <3>1. i # j /\ Live(i)
        BY <1>0, <1>1, <2>1 DEF Live, Exists, Terminal
      <3>2. CASE InQueue(i)
        BY <1>2, <3>2 DEF InQueue
      <3>3. CASE Held(i)
        BY <1>3, <3>1, <3>3 DEF Held
      <3> QED BY <3>1, <3>2, <3>3 DEF IInv, NothingStranded
    <2> QED BY <1>0, <1>2, <2>1 DEF NothingStranded
  <1>11. HistoryOK'
    <2>1. \A i \in cancelAcked : mem'[i].st # "queued"
      BY <1>0, <1>1 DEF IInv, HistoryOK, TypeOK, TerminalStatus
    <2> QED BY <1>2, <2>1 DEF IInv, HistoryOK, NoSecondStart, OnlyAckedStart,
                             CancelBeforeStartHonored
  <1> QED BY <1>5, <1>6, <1>7, <1>8, <1>9, <1>10, <1>11 DEF IInv

(* CheckContext, AcquireSlot and CheckTarget only move the program counter *)
(* before the start.                                                       *)
LEMMA StepOnlyStep ==
    ASSUME TypeOK, IInv, NEW w \in Workers, NEW pc \in {"slot", "check", "start"},
           worker[w].pc \in BeforeStart, StepOnly(w, pc)
    PROVE  IInv'
  <1>1. worker[w].op # None
    BY DEF IInv, WorkersWellFormed, BeforeStart
  <1>2. worker' = [worker EXCEPT ![w].pc = pc]
    BY DEF StepOnly, GoTo
  <1>3. \A v \in Workers : /\ worker'[v].target = worker[v].target
                           /\ worker'[v].op = worker[v].op
                           /\ v # w => worker'[v] = worker[v]
                           /\ worker'[w].pc = pc
    BY <1>2 DEF TypeOK, WorkerState
  <1>4. UNCHANGED <<phase, attr, mem, disk, runner, acked, cancelAcked, pending, recon,
                    starts>>
    BY DEF StepOnly, recordVars, reconVars, targetVars, histVars
  <1>5. /\ Live(worker[w].op) /\ mem[worker[w].op].st \in Waiting
        /\ starts[worker[w].op] = 0
    BY <1>1 DEF IInv, HeldWellFormed
  <1>6. Live(worker[w].op)'
    BY <1>4, <1>5, <1>3 DEF Live, Exists, Terminal
  <1> QED BY <1>1, <1>3, <1>4, <1>5, <1>6, HeldStep DEF BeforeStart, AfterStart

(* runTarget taking the front of its queue keeps the invariant.            *)
LEMMA PopStep ==
    ASSUME TypeOK, IInv, NEW w \in Workers, Pop(w)
    PROVE  IInv'
  <1> DEFINE t == worker[w].target
             q == runner[t].queue
             j == Head(q)
  <1>0. t \in Targets /\ worker[w].pc = "loop" /\ phase # "down" /\ worker[w].op = None
    BY DEF Pop, At, IInv, WorkersWellFormed
  <1>a. \A n \in DOMAIN q : QueuesWellFormed!(t)!(n)
    BY <1>0 DEF IInv, QueuesWellFormed
  <1>1. q \in Seq(OpIds) /\ q # << >>
    BY <1>0 DEF Pop, TypeOK
  <1>2. /\ Len(q) \in Nat /\ Len(q) >= 1 /\ j = q[1] /\ 1 \in DOMAIN q
        /\ DOMAIN q = 1..Len(q) /\ DOMAIN Tail(q) = 1..(Len(q) - 1)
        /\ \A n \in DOMAIN Tail(q) : n + 1 \in DOMAIN q /\ Tail(q)[n] = q[n + 1] /\ n + 1 # 1
    BY <1>1
  <1>3. UNCHANGED <<phase, attr, mem, disk, pending, recon, starts, acked, cancelAcked>>
    BY DEF Pop, recordVars, reconVars, targetVars, histVars
  <1>4. /\ \A v \in Workers : /\ worker'[v].target = worker[v].target
                              /\ v # w => worker'[v] = worker[v]
        /\ worker'[w].op = j /\ worker'[w].pc = "popped" /\ worker'[w].out = worker[w].out
    BY DEF Pop, TypeOK, WorkerState
  <1>5. /\ \A u \in Targets : u # t => runner'[u] = runner[u]
        /\ runner'[t].queue = Tail(q) /\ runner'[t].busy = runner[t].busy
    BY <1>0 DEF Pop, TypeOK
  <1>6. /\ j \in OpIds /\ ~Fresh(j) /\ TargetOf(j) = t /\ mem[j].st \in Waiting
        /\ starts[j] = 0 /\ j \in acked
        /\ \A v \in Workers : worker[v].op # j
        /\ \A n \in DOMAIN Tail(q) : Tail(q)[n] # j
    <2>1. QueuesWellFormed!(t)!(1)
      BY <1>a, <1>2, Zenon
    <2>2. j \in OpIds
      BY <1>1, <1>2
    <2>3. \A n \in DOMAIN Tail(q) : Tail(q)[n] # j
      BY <1>2, <2>1
    <2> QED BY <1>2, <2>1, <2>2, <2>3
  <1>7. WorkersWellFormed'
    BY <1>0, <1>4, <1>6, NoneIsNoId DEF IInv, WorkersWellFormed
  <1>8. KnownIds'
    BY <1>3, <1>4, <1>6 DEF IInv, KnownIds, Fresh, Exists
  <1>9. RunnersWellFormed'
    <2>1. runner[t].busy
      BY <1>0, <1>1 DEF IInv, RunnersWellFormed
    <2> SUFFICES ASSUME NEW u \in Targets PROVE RunnersWellFormed!(u)'
      BY DEF RunnersWellFormed
    <2>2. CASE u = t
      <3>1. runner'[t].busy
        BY <2>1, <1>5
      <3>2. worker'[w].target = t
        BY <1>4
      <3>3. \A v, x \in Workers : worker'[v].target = t /\ worker'[x].target = t => v = x
        BY <1>0, <1>4 DEF IInv, RunnersWellFormed
      <3> QED BY <2>2, <3>1, <3>2, <3>3
    <2>3. CASE u # t
      BY <1>4, <1>5, <2>3 DEF IInv, RunnersWellFormed
    <2> QED BY <2>2, <2>3
  <1>10. QueuesWellFormed'
    <2> SUFFICES ASSUME NEW u \in Targets, NEW n \in DOMAIN runner'[u].queue
                 PROVE  QueuesWellFormed!(u)!(n)'
      BY DEF QueuesWellFormed
    <2>1. CASE u # t
      <3> DEFINE i == runner[u].queue[n]
      <3>1. n \in DOMAIN runner[u].queue /\ runner'[u].queue = runner[u].queue
        BY <1>5, <2>1
      <3>2. TargetOf(i) = u /\ i # j
        BY <1>6, <3>1, <2>1 DEF IInv, QueuesWellFormed
      <3> QED BY <1>3, <1>4, <3>1, <3>2 DEF IInv, QueuesWellFormed, Fresh, TargetOf
    <2>2. CASE u = t
      <3> DEFINE i == Tail(q)[n]
      <3>1. n \in DOMAIN Tail(q) /\ i = q[n + 1] /\ n + 1 \in DOMAIN q /\ i # j
        BY <1>2, <1>5, <1>6, <2>2
      <3>2. /\ ~Fresh(i) /\ TargetOf(i) = t /\ mem[i].st \in Waiting /\ starts[i] = 0
            /\ i \in acked /\ \A v \in Workers : worker[v].op # i
            /\ \A m \in DOMAIN q : q[m] = i => m = n + 1
        <4>1. QueuesWellFormed!(t)!(n + 1)
          BY <1>a, <3>1, Zenon
        <4> QED BY <3>1, <4>1
      <3>3. \A m \in DOMAIN Tail(q) : Tail(q)[m] = i => m = n
        <4> SUFFICES ASSUME NEW m \in DOMAIN Tail(q), Tail(q)[m] = i PROVE m = n
          OBVIOUS
        <4>1. m + 1 = n + 1
          BY <1>2, <3>2
        <4>2. m \in Int /\ n \in Int
          BY <1>2, <3>1
        <4> QED BY <4>1, <4>2
      <3> QED BY <1>3, <1>4, <1>5, <2>2, <3>1, <3>2, <3>3 DEF Fresh, TargetOf
    <2> QED BY <2>1, <2>2
  <1>11. HeldWellFormed'
    <2> SUFFICES ASSUME NEW v \in Workers, worker'[v].op # None
                 PROVE  HeldWellFormed!(v)'
      BY DEF HeldWellFormed
    <2>1. CASE v = w
      BY <1>3, <1>4, <1>6, <2>1
         DEF Fresh, TargetOf, Live, Exists, Terminal, Waiting, TerminalStatus, AfterStart
    <2>2. CASE v # w
      BY <1>3, <1>4, <2>2
         DEF IInv, HeldWellFormed, Fresh, TargetOf, Live, Exists, Terminal
    <2> QED BY <2>1, <2>2
  <1>12. NothingStranded'
    <2>1. ASSUME NEW i \in OpIds, Live(i)'
          PROVE  InQueue(i)' \/ Held(i)'
      <3>1. Live(i) /\ i # None
        BY <1>3, <2>1, NoneIsNoId DEF Live, Exists, Terminal
      <3>2. CASE i = j
        BY <1>4, <3>2 DEF Held
      <3>3. CASE Held(i)
        BY <1>0, <1>4, <3>1, <3>3 DEF Held
      <3>4. CASE InQueue(i) /\ i # j
        <4>1. PICK u \in Targets : \E n \in DOMAIN runner[u].queue : runner[u].queue[n] = i
          BY <3>4 DEF InQueue
        <4>2. PICK n \in DOMAIN runner[u].queue : runner[u].queue[n] = i
          BY <4>1
        <4>3. CASE u # t
          BY <4>2, <4>3, <1>5 DEF InQueue
        <4>4. CASE u = t
          <5>1. n # 1 /\ n \in 1..Len(q)
            BY <1>2, <3>4, <4>2, <4>4
          <5>2. n - 1 \in DOMAIN Tail(q) /\ Tail(q)[n - 1] = i
            BY SMTT(30), <1>1, <1>2, <4>2, <4>4, <5>1
          <5> QED BY <1>0, <1>5, <5>2 DEF InQueue
        <4> QED BY <4>3, <4>4
      <3> QED BY <3>1, <3>2, <3>3, <3>4 DEF IInv, NothingStranded
    <2> QED BY <1>0, <1>3, <2>1 DEF NothingStranded
  <1>13. HistoryOK'
    BY <1>3 DEF IInv, HistoryOK, NoSecondStart, OnlyAckedStart, CancelBeforeStartHonored
  <1> QED BY <1>7, <1>8, <1>9, <1>10, <1>11, <1>12, <1>13 DEF IInv

(* runTarget leaving an empty queue keeps the invariant.                   *)
LEMMA DrainStep ==
    ASSUME TypeOK, IInv, NEW w \in Workers, Drain(w)
    PROVE  IInv'
  <1> DEFINE t == worker[w].target
  <1>0. t \in Targets /\ worker[w].pc = "loop" /\ phase # "down" /\ worker[w].op = None
    BY DEF Drain, At, IInv, WorkersWellFormed
  <1>1. UNCHANGED <<phase, attr, mem, disk, pending, recon, starts, acked, cancelAcked>>
    BY DEF Drain, recordVars, reconVars, targetVars, histVars
  <1>2. /\ \A v \in Workers : v # w => worker'[v] = worker[v]
        /\ worker'[w] = Idle
    BY DEF Drain, TypeOK
  <1>3. /\ \A u \in Targets : u # t => runner'[u] = runner[u]
        /\ runner'[t] = [queue |-> << >>, busy |-> FALSE]
    BY <1>0 DEF Drain, TypeOK
  <1>4. \A u \in Targets : runner'[u].queue = runner[u].queue
    BY <1>3 DEF Drain
  <1>5. \A v \in Workers : worker'[v].op = worker[v].op
    BY <1>0, <1>2 DEF Idle
  <1>6. WorkersWellFormed'
    BY <1>2 DEF IInv, WorkersWellFormed, Idle
  <1>7. KnownIds'
    BY <1>1, <1>5 DEF IInv, KnownIds, Fresh, Exists
  <1>8. RunnersWellFormed'
    <2> SUFFICES ASSUME NEW u \in Targets PROVE RunnersWellFormed!(u)'
      BY DEF RunnersWellFormed
    <2>1. worker'[w].target = None
      BY <1>2 DEF Idle
    <2>2. CASE u = t
      <3>1. \A v \in Workers : worker'[v].target # t
        BY <1>0, <1>2, <2>1, NoneIsNoId DEF IInv, RunnersWellFormed
      <3>2. ~runner'[t].busy /\ runner'[t].queue = << >>
        BY <1>3
      <3> QED BY <2>2, <3>1, <3>2
    <2>3. CASE u # t
      <3>1. \A v \in Workers : worker'[v].target = u <=> worker[v].target = u
        BY <1>2, <2>1, <2>3, NoneIsNoId
      <3> QED BY <1>3, <2>3, <3>1 DEF IInv, RunnersWellFormed
    <2> QED BY <2>2, <2>3
  <1>9. QueuesWellFormed'
    BY <1>1, <1>4, <1>5 DEF IInv, QueuesWellFormed, Fresh, TargetOf
  <1>10. HeldWellFormed'
    <2>1. \A v \in Workers : worker'[v].op # None => worker'[v] = worker[v]
      BY <1>0, <1>2, <1>5
    <2> QED BY <1>1, <2>1 DEF IInv, HeldWellFormed, Fresh, TargetOf, Live, Exists, Terminal
  <1>11. NothingStranded'
    BY <1>0, <1>1, <1>4, <1>5 DEF IInv, NothingStranded, Live, Exists, Terminal, InQueue, Held
  <1>12. HistoryOK'
    BY <1>1 DEF IInv, HistoryOK, NoSecondStart, OnlyAckedStart, CancelBeforeStartHonored
  <1> QED BY <1>6, <1>7, <1>8, <1>9, <1>10, <1>11, <1>12 DEF IInv

(* What appending to a queue does to its domain and its elements.          *)
LEMMA AppendFacts ==
    ASSUME NEW S, NEW s \in Seq(S), NEW e \in S
    PROVE  /\ Len(s) \in Nat /\ DOMAIN s = 1..Len(s)
           /\ Len(s) + 1 \in DOMAIN Append(s, e) /\ Append(s, e)[Len(s) + 1] = e
           /\ \A n \in DOMAIN s : n \in DOMAIN Append(s, e) /\ Append(s, e)[n] = s[n]
           /\ \A n \in DOMAIN Append(s, e) : n = Len(s) + 1 \/ n \in DOMAIN s
  <1>1. Len(s) \in Nat /\ DOMAIN s = 1..Len(s)
    OBVIOUS
  <1>2. DOMAIN Append(s, e) = 1..(Len(s) + 1)
    OBVIOUS
  <1>3. Append(s, e)[Len(s) + 1] = e
    OBVIOUS
  <1>4. \A n \in 1..Len(s) : Append(s, e)[n] = s[n]
    OBVIOUS
  <1> QED BY <1>1, <1>2, <1>3, <1>4

(* Admission publishes an id that nothing refers to yet.                   *)
LEMMA AdmitStep ==
    ASSUME TypeOK, IInv, NEW c \in Clients, NEW i \in OpIds, Admit(c, i)
    PROVE  IInv'
  <1> DEFINE t == client[c].req.target
             q == [st |-> "queued", rec |-> "nil"]
  <1>0. /\ Fresh(i) /\ phase = "up" /\ t \in Targets
        /\ ~Exists(i) /\ disk[i].st = "none" /\ starts[i] = 0 /\ i \notin acked
        /\ i \notin cancelAcked /\ \A w \in Workers : worker[w].op # i
        /\ \A u \in Targets : \A n \in DOMAIN runner[u].queue : runner[u].queue[n] # i
    <2>1. client[c] \in Call
      BY DEF Admit, TypeOK
    <2>2. t \in Targets
      BY <2>1, ConstantsAssumption DEF Call
    <2>3. Fresh(i) /\ phase = "up"
      BY DEF Admit, MayAdmit
    <2> QED BY <2>2, <2>3 DEF IInv, KnownIds, QueuesWellFormed
  <1>1. /\ attr'[i] # None /\ attr'[i].req.target = t
        /\ \A k \in OpIds : k # i => attr'[k] = attr[k] /\ disk'[k] = disk[k]
        /\ UNCHANGED <<phase, pending, recon, starts, cancelAcked>>
    <2>1. attr'[i] \in Attr /\ attr'[i].req.target = t
      <3>1. client[c] \in Call /\ clock \in Nat /\ admissionSeq \in Nat
        BY DEF Admit, TypeOK
      <3>2. attr'[i] = [req |-> client[c].req, principal |-> client[c].principal,
                        key |-> client[c].key, retryOf |-> client[c].retryOf,
                        created |-> clock, seq |-> admissionSeq + 1]
        BY DEF Admit, TypeOK
      <3> QED BY <3>1, <3>2 DEF Call, Attr
    <2>2. attr'[i] # None
      BY <2>1, NoneIsNoRecord
    <2> QED BY <2>1, <2>2 DEF Admit, SaveOK, SaveFails, TypeOK, reconVars, targetVars
  <1>2. KnownIds'
    <2>1. \A k \in OpIds : k # i => mem'[k] = mem[k] /\ (k \in acked' <=> k \in acked)
      BY DEF Admit, TypeOK
    <2>2. \A v \in Workers : worker'[v].op = worker[v].op
      <3>1. CASE UNCHANGED worker
        BY <3>1
      <3>2. CASE \E w \in Workers : worker[w] = Idle /\ worker' = [worker EXCEPT ![w] = Looping(t)]
        BY <3>2 DEF Idle, Looping, TypeOK
      <3> QED BY <3>1, <3>2 DEF Admit, AdmitToTarget, execVars
    <2> QED BY <1>1, <2>1, <2>2 DEF IInv, KnownIds, Fresh, Exists
  <1>3. CASE UNCHANGED <<mem, runner, worker, acked>>
    <2>1. QueuesWellFormed'
      BY <1>0, <1>1, <1>3 DEF IInv, QueuesWellFormed, Fresh, TargetOf, TypeOK
    <2>2. HeldWellFormed'
      <3>1. \A w \in Workers : worker[w].op # None => worker[w].op \in OpIds /\ worker[w].op # i
        BY <1>0 DEF TypeOK, WorkerState
      <3> QED BY <1>1, <1>3, <3>1
              DEF IInv, HeldWellFormed, Fresh, TargetOf, Live, Exists, Terminal
    <2>3. WorkersWellFormed' /\ RunnersWellFormed'
      BY <1>3 DEF IInv, WorkersWellFormed, RunnersWellFormed
    <2>4. NothingStranded'
      BY <1>1, <1>3 DEF IInv, NothingStranded, Live, Exists, Terminal, InQueue, Held
    <2>5. HistoryOK'
      BY <1>1, <1>3 DEF IInv, HistoryOK, NoSecondStart, OnlyAckedStart, CancelBeforeStartHonored
    <2> QED BY <1>2, <2>1, <2>2, <2>3, <2>4, <2>5 DEF IInv
  <1>4. CASE mem' = [mem EXCEPT ![i] = q] /\ AdmitToTarget(t, i) /\ acked' = acked \cup {i}
    <2>1. /\ \A u \in Targets : u # t => runner'[u] = runner[u]
          /\ runner'[t].busy = TRUE
      BY <1>0, <1>4 DEF AdmitToTarget, TypeOK
    <2> DEFINE s == runner[t].queue
    <2>2. /\ Len(s) \in Nat /\ DOMAIN s = 1..Len(s)
          /\ Len(s) + 1 \in DOMAIN runner'[t].queue /\ runner'[t].queue[Len(s) + 1] = i
          /\ \A n \in DOMAIN s : n \in DOMAIN runner'[t].queue /\ runner'[t].queue[n] = s[n]
          /\ \A n \in DOMAIN runner'[t].queue : n = Len(s) + 1 \/ n \in DOMAIN s
      <3>1. s \in Seq(OpIds) /\ runner'[t].queue = Append(s, i)
        BY <1>0, <1>4 DEF AdmitToTarget, TypeOK
      <3> HIDE DEF s
      <3>2. /\ Len(s) \in Nat /\ DOMAIN s = 1..Len(s)
            /\ Len(s) + 1 \in DOMAIN Append(s, i) /\ Append(s, i)[Len(s) + 1] = i
            /\ \A n \in DOMAIN s : n \in DOMAIN Append(s, i) /\ Append(s, i)[n] = s[n]
            /\ \A n \in DOMAIN Append(s, i) : n = Len(s) + 1 \/ n \in DOMAIN s
        BY <3>1, AppendFacts, Zenon
      <3> QED BY <3>1, <3>2, Zenon
    <2>3. \A k \in OpIds : k # i => mem'[k] = mem[k]
      BY <1>4 DEF TypeOK
    <2>4. mem'[i] = q
      BY <1>4 DEF TypeOK
    <2>5. /\ \A v \in Workers : worker'[v].op = worker[v].op
          /\ \A v \in Workers : worker'[v].op # None => worker'[v] = worker[v]
          /\ \A v \in Workers : \A u \in Targets : u # t =>
                (worker'[v].target = u <=> worker[v].target = u)
          /\ \E v \in Workers : worker'[v].target = t
          /\ \A v, x \in Workers : worker'[v].target = t /\ worker'[x].target = t => v = x
          /\ WorkersWellFormed'
      <3>1. CASE runner[t].busy
        <4>1. worker' = worker
          BY <1>4, <3>1 DEF AdmitToTarget
        <4> QED BY <1>0, <3>1, <4>1 DEF IInv, RunnersWellFormed, WorkersWellFormed
      <3>2. CASE ~runner[t].busy
        <4>1. PICK w \in Workers : worker[w] = Idle /\ worker' = [worker EXCEPT ![w] = Looping(t)]
          BY <1>4, <3>2 DEF AdmitToTarget
        <4>2. worker'[w] = Looping(t) /\ \A v \in Workers : v # w => worker'[v] = worker[v]
          BY <4>1 DEF TypeOK
        <4>3. /\ worker[w].op = None /\ worker[w].target = None
              /\ worker'[w].op = None /\ worker'[w].target = t /\ worker'[w].pc = "loop"
          BY <4>1, <4>2 DEF Idle, Looping
        <4>4. \A v \in Workers : worker[v].target # t
          BY <1>0, <3>2 DEF IInv, RunnersWellFormed
        <4>5. WorkersWellFormed'
          BY <1>0, <4>2, <4>3 DEF IInv, WorkersWellFormed
        <4> QED BY <4>2, <4>3, <4>4, <4>5, NoneIsNoId
      <3> QED BY <3>1, <3>2
    <2>6. RunnersWellFormed'
      <3> SUFFICES ASSUME NEW u \in Targets PROVE RunnersWellFormed!(u)'
        BY DEF RunnersWellFormed
      <3>1. CASE u = t
        <4>1. runner'[t].busy
          BY <2>1
        <4> QED BY <2>5, <3>1, <4>1
      <3>2. CASE u # t
        BY <2>1, <2>5, <3>2 DEF IInv, RunnersWellFormed
      <3> QED BY <3>1, <3>2
    <2>7. QueuesWellFormed'
      <3> SUFFICES ASSUME NEW u \in Targets, NEW n \in DOMAIN runner'[u].queue
                   PROVE  QueuesWellFormed!(u)!(n)'
        BY DEF QueuesWellFormed
      <3> DEFINE k == runner'[u].queue[n]
      <3>1. CASE u = t /\ n = Len(s) + 1
        <4>1. k = i
          BY <2>1, <2>2, <3>1
        <4>2. \A m \in DOMAIN runner'[u].queue : runner'[u].queue[m] = i => m = n
          <5>1. \A m \in DOMAIN s : s[m] # i
            BY <1>0
          <5> QED BY <2>2, <3>1, <5>1, Zenon
        <4>3. ~Fresh(i)' /\ TargetOf(i)' = t
          BY <1>1 DEF Fresh, TargetOf
        <4>4. mem'[i].st \in Waiting
          BY <2>4 DEF Waiting
        <4>5. starts'[i] = 0 /\ i \in acked' /\ \A w \in Workers : worker'[w].op # i
          BY <1>0, <1>1, <1>4, <2>5
        <4> QED BY <3>1, <4>1, <4>2, <4>3, <4>4, <4>5
      <3>2. CASE ~(u = t /\ n = Len(s) + 1)
        <4>1. n \in DOMAIN runner[u].queue /\ k = runner[u].queue[n]
          BY <2>1, <2>2, <3>2
        <4>2. k # i /\ k \in OpIds
          BY <1>0, <4>1 DEF TypeOK
        <4>3. \A m \in DOMAIN runner'[u].queue : runner'[u].queue[m] = k => m = n
          <5>1. \A m \in DOMAIN runner[u].queue : runner[u].queue[m] = k => m = n
            BY <4>1 DEF IInv, QueuesWellFormed
          <5>2. CASE u # t
            BY <2>1, <5>1, <5>2
          <5>3. CASE u = t
            BY <2>1, <2>2, <4>2, <5>1, <5>3
          <5> QED BY <5>2, <5>3
        <4> QED BY <1>1, <1>4, <2>3, <2>5, <4>1, <4>2, <4>3
                DEF IInv, QueuesWellFormed, Fresh, TargetOf
      <3> QED BY <3>1, <3>2
    <2>8. HeldWellFormed'
      <3> SUFFICES ASSUME NEW v \in Workers, worker'[v].op # None
                   PROVE  HeldWellFormed!(v)'
        BY DEF HeldWellFormed
      <3>1. worker'[v] = worker[v] /\ worker[v].op \in OpIds /\ worker[v].op # i
        BY <1>0, <2>5 DEF TypeOK, WorkerState
      <3> QED BY <1>1, <1>4, <2>3, <3>1
              DEF IInv, HeldWellFormed, Fresh, TargetOf, Live, Exists, Terminal
    <2>9. NothingStranded'
      <3>1. ASSUME NEW k \in OpIds, Live(k)'
            PROVE  InQueue(k)' \/ Held(k)'
        <4>1. CASE k = i
          BY <1>0, <2>1, <2>2, <4>1 DEF InQueue
        <4>2. CASE k # i /\ Held(k)
          BY <2>5, <4>2 DEF Held
        <4>3. CASE k # i /\ InQueue(k)
          <5>1. PICK u \in Targets : \E n \in DOMAIN runner[u].queue : runner[u].queue[n] = k
            BY <4>3 DEF InQueue
          <5>2. CASE u = t
            <6>1. PICK n \in DOMAIN s : s[n] = k
              BY <5>1, <5>2
            <6>2. n \in DOMAIN runner'[t].queue /\ runner'[t].queue[n] = k
              BY <2>2, <6>1, Zenon
            <6> QED BY <1>0, <6>2 DEF InQueue
          <5>3. CASE u # t
            BY <2>1, <5>1, <5>3 DEF InQueue
          <5> QED BY <5>2, <5>3
        <4>4. k # i => Live(k)
          BY <2>3, <3>1 DEF Live, Exists, Terminal
        <4> QED BY <4>1, <4>2, <4>3, <4>4 DEF IInv, NothingStranded
      <3> QED BY <1>0, <1>1, <3>1 DEF NothingStranded
    <2>10. HistoryOK'
      <3>1. \A k \in cancelAcked : mem'[k].st # "queued"
        BY <1>0, <2>3 DEF IInv, HistoryOK, TypeOK
      <3> QED BY <1>1, <1>4, <3>1 DEF IInv, HistoryOK, NoSecondStart, OnlyAckedStart,
                                    CancelBeforeStartHonored
    <2> QED BY <1>2, <2>5, <2>6, <2>7, <2>8, <2>9, <2>10 DEF IInv
  <1> QED BY <1>3, <1>4 DEF Admit, execVars

(* What a goroutine holds, named.                                          *)
LEMMA HeldFacts ==
    ASSUME TypeOK, IInv, NEW w \in Workers, worker[w].pc \notin {"idle", "loop"}
    PROVE  /\ worker[w].op # None /\ worker[w].op \in OpIds /\ Live(worker[w].op)
           /\ worker[w].op \in acked
           /\ starts[worker[w].op] <= 1
           /\ worker[w].op \in cancelAcked => starts[worker[w].op] = 0
           /\ worker[w].pc \in BeforeStart =>
                 mem[worker[w].op].st \in Waiting /\ starts[worker[w].op] = 0
           /\ worker[w].pc \in AfterStart => mem[worker[w].op].st # "queued"
  <1>1. worker[w].op # None /\ worker[w].op \in OpIds
    BY DEF IInv, WorkersWellFormed, TypeOK, WorkerState
  <1> QED BY <1>1 DEF IInv, HeldWellFormed, HistoryOK, NoSecondStart, CancelBeforeStartHonored

(* setRunning starts a job only from the queued state, so once.            *)
LEMMA SetRunningStep ==
    ASSUME TypeOK, IInv, NEW w \in Workers, SetRunning(w)
    PROVE  IInv'
  <1> DEFINE j == worker[w].op
             r == [st |-> "running", rec |-> "nil"]
  <1>0. /\ worker[w].pc = "start" /\ j # None /\ j \in OpIds /\ starts[j] = 0
        /\ mem[j].st \in Waiting
    BY HeldFacts DEF SetRunning, At, BeforeStart
  <1>1. CASE mem[j].st = "cancel_requested"
    BY <1>0, <1>1, FinishStep DEF SetRunning, TerminalStatus
  <1>2. CASE mem[j].st = "queued"
    <2>1. /\ mem' = [mem EXCEPT ![j] = r]
          /\ \/ worker' = [worker EXCEPT ![w].pc = "exec"]
                /\ starts' = [starts EXCEPT ![j] = @ + 1]
             \/ worker' = [worker EXCEPT ![w].pc = "unsaved"] /\ starts' = starts
          /\ UNCHANGED <<phase, attr, runner, acked, cancelAcked, pending, recon>>
      BY <1>2 DEF SetRunning, GoTo, reconVars, histVars
    <2>2. \A i \in OpIds : i # j => mem'[i] = mem[i] /\ starts'[i] = starts[i]
                                    /\ disk'[i] = disk[i]
      BY <1>2, <2>1 DEF SetRunning, SaveOK, SaveFails, TypeOK
    <2>3. mem'[j] = r /\ j \notin cancelAcked
      BY <1>0, <1>2, <2>1 DEF TypeOK, IInv, HistoryOK
    <2>4. Live(j)'
      <3>1. mem'[j].st \in Status \ TerminalStatus /\ mem'[j].st # "none"
        BY <2>3 DEF Status, TerminalStatus
      <3>2. worker'[w].op = j
        BY <2>1 DEF TypeOK, WorkerState
      <3> QED BY <3>1, <3>2 DEF Live, Exists, Terminal
    <2>5. \A v \in Workers : /\ worker'[v].target = worker[v].target
                             /\ worker'[v].op = worker[v].op
                             /\ v # w => worker'[v] = worker[v]
      BY <2>1 DEF TypeOK, WorkerState
    <2>6. \/ worker'[w].pc = "exec" /\ starts'[j] = 1
          \/ worker'[w].pc = "unsaved" /\ starts'[j] = 0
      BY <1>0, <2>1 DEF TypeOK, WorkerState
    <2> QED BY <1>0, <2>1, <2>2, <2>3, <2>4, <2>5, <2>6, HeldStep DEF BeforeStart, AfterStart
  <1> QED BY <1>0, <1>1, <1>2 DEF Waiting

(* The executor's return, the receipt and the stopping state: the job      *)
(* stays where it is.                                                      *)
LEMMA AfterStartStep ==
    ASSUME TypeOK, IInv, NEW w \in Workers, worker[w].pc \in AfterStart,
           NEW pc \in AfterStart, NEW out,
           worker' = [worker EXCEPT ![w].pc = pc, ![w].out = out],
           pc \in {"returned", "decided"} => out \in {"succeeded", "failed"},
           pc = "answered" => out \in ReconcileState,
           \/ mem' = mem
           \/ mem' = [mem EXCEPT ![worker[w].op] = [st |-> "stopping", rec |-> "nil"]],
           \A i \in OpIds : i # worker[w].op => disk'[i] = disk[i],
           UNCHANGED <<phase, attr, runner, acked, cancelAcked, pending, recon, starts>>
    PROVE  IInv'
  <1> DEFINE j == worker[w].op
  <1>0. /\ j # None /\ j \in OpIds /\ Live(j) /\ mem[j].st # "queued" /\ starts[j] <= 1
        /\ j \in cancelAcked => starts[j] = 0
    BY HeldFacts DEF AfterStart
  <1>1. /\ \A v \in Workers : /\ worker'[v].target = worker[v].target
                              /\ worker'[v].op = worker[v].op
                              /\ v # w => worker'[v] = worker[v]
        /\ worker'[w].pc = pc /\ worker'[w].out = out
    BY DEF TypeOK, WorkerState
  <1>2. \A i \in OpIds : i # j => mem'[i] = mem[i]
    BY DEF TypeOK
  <1>3. Live(j)' /\ mem'[j].st # "queued"
    <2>1. CASE mem' = mem
      BY <1>0, <1>1, <2>1 DEF Live, Exists, Terminal
    <2>2. CASE mem' = [mem EXCEPT ![j] = [st |-> "stopping", rec |-> "nil"]]
      <3>1. mem'[j].st = "stopping"
        BY <1>0, <2>2 DEF TypeOK
      <3> QED BY <1>1, <3>1 DEF Live, Exists, Terminal, TerminalStatus
    <2> QED BY <2>1, <2>2
  <1> QED BY ZenonT(60), <1>0, <1>1, <1>2, <1>3, HeldStep DEF BeforeStart, AfterStart

(* A cancel keeps a waiting job waiting.                                   *)
LEMMA CancelStep ==
    ASSUME TypeOK, IInv, NEW i \in OpIds, Cancel(i)
    PROVE  IInv'
  <1>0. Live(i) /\ phase # "down" /\ mem[i].st \in Status
    BY DEF Cancel, Cancelable, Live, Exists, Terminal, TypeOK, Record, Absence
  <1>1. /\ UNCHANGED <<phase, attr, runner, worker, pending, recon, starts, acked>>
        /\ \A k \in OpIds : k # i => mem'[k] = mem[k] /\ disk'[k] = disk[k]
        /\ \/ mem' = mem /\ cancelAcked' = cancelAcked
           \/ /\ mem'[i].st = "cancel_requested"
              /\ cancelAcked' = IF mem[i].st = "queued" THEN cancelAcked \cup {i}
                                ELSE cancelAcked
    <2>1. UNCHANGED <<phase, attr, runner, worker, pending, recon, starts, acked>>
      BY DEF Cancel, execVars, reconVars, targetVars
    <2>2. \A k \in OpIds : k # i => mem'[k] = mem[k] /\ disk'[k] = disk[k]
      BY DEF Cancel, SaveOK, SaveFails, TypeOK
    <2>3. [mem[i] EXCEPT !.st = "cancel_requested"].st = "cancel_requested"
      <3>1. mem[i] \in Record
        BY <1>0 DEF TypeOK, Live, Exists, Absence
      <3> QED BY <3>1 DEF Record
    <2> QED BY <2>1, <2>2, <2>3 DEF Cancel, TypeOK
  <1>2. ~Fresh(i)
    BY <1>0 DEF IInv, KnownIds, Live
  <1>3. KnownIds'
    BY <1>1, <1>2 DEF IInv, KnownIds, Fresh, Exists
  <1>4. WorkersWellFormed' /\ RunnersWellFormed'
    BY <1>1 DEF IInv, WorkersWellFormed, RunnersWellFormed
  <1>5. \A k \in OpIds : /\ mem[k].st \in Waiting => mem'[k].st \in Waiting
                         /\ Live(k) <=> Live(k)'
                         /\ mem[k].st # "queued" => mem'[k].st # "queued"
    BY <1>0, <1>1 DEF Waiting, Live, Exists, Terminal, TerminalStatus
  <1>6. QueuesWellFormed'
    <2>1. \A t \in Targets : \A n \in DOMAIN runner[t].queue : runner[t].queue[n] \in OpIds
      BY DEF TypeOK
    <2> QED BY <1>1, <1>5, <2>1 DEF IInv, QueuesWellFormed, Fresh, TargetOf
  <1>7. HeldWellFormed'
    <2> SUFFICES ASSUME NEW v \in Workers, worker'[v].op # None
                 PROVE  HeldWellFormed!(v)'
      BY DEF HeldWellFormed
    <2>1. worker'[v] = worker[v] /\ worker[v].op \in OpIds
      BY <1>1 DEF TypeOK, WorkerState
    <2>2. Live(worker[v].op)'
      <3>1. Live(worker[v].op)
        BY <1>1 DEF IInv, HeldWellFormed
      <3>2. mem[worker[v].op].st \notin TerminalStatus \cup {"none"}
        BY <3>1 DEF Live, Exists, Terminal
      <3>3. mem'[worker[v].op].st \notin TerminalStatus \cup {"none"}
        BY <1>1, <2>1, <3>2 DEF TerminalStatus
      <3> QED BY <3>3, <2>1 DEF Live, Exists, Terminal
    <2> QED BY <1>1, <1>5, <2>1, <2>2 DEF IInv, HeldWellFormed, Fresh, TargetOf
  <1>8. NothingStranded'
    BY <1>0, <1>1, <1>5 DEF IInv, NothingStranded, InQueue, Held
  <1>9. HistoryOK'
    <2>1. mem[i].st = "queued" => starts[i] = 0
      <3>1. CASE InQueue(i)
        BY <3>1 DEF InQueue, IInv, QueuesWellFormed
      <3>2. CASE Held(i) /\ mem[i].st = "queued"
        <4>1. PICK w \in Workers : worker[w].op = i
          BY <3>2 DEF Held
        <4>2. i # None /\ worker[w].pc \in Pc
          BY NoneIsNoId DEF TypeOK, WorkerState
        <4>3. worker[w].pc \in BeforeStart
          BY <3>2, <4>1, <4>2 DEF IInv, HeldWellFormed, WorkersWellFormed, Pc,
                                  BeforeStart, AfterStart
        <4> QED BY <4>1, <4>2, <4>3 DEF IInv, HeldWellFormed
      <3> QED BY <1>0, <3>1, <3>2 DEF IInv, NothingStranded
    <2>2. \A k \in cancelAcked' : starts[k] = 0 /\ mem'[k].st # "queued"
      BY <1>1, <1>5, <2>1 DEF IInv, HistoryOK, CancelBeforeStartHonored, TypeOK
    <2> QED BY <1>1, <2>2 DEF IInv, HistoryOK, NoSecondStart, OnlyAckedStart,
                             CancelBeforeStartHonored
  <1> QED BY <1>3, <1>4, <1>6, <1>7, <1>8, <1>9 DEF IInv

(* Reconciliation, retention and restart only touch what is settled.       *)
LEMMA SettledStep ==
    ASSUME TypeOK, IInv, KnownIds', phase' # "down",
           \A k \in OpIds : \/ mem'[k] = mem[k]
                            \/ ~Live(k) /\ mem'[k].st \in TerminalStatus \cup {"none"},
           UNCHANGED <<attr, runner, worker, starts, acked, cancelAcked>>
    PROVE  IInv'
  <1>1. WorkersWellFormed' /\ RunnersWellFormed'
    BY DEF IInv, WorkersWellFormed, RunnersWellFormed
  <1>2. \A k \in OpIds : mem[k].st \in Waiting => mem'[k] = mem[k]
    BY DEF Live, Exists, Terminal, Waiting, TerminalStatus
  <1>3. \A k \in OpIds : mem[k].st \notin TerminalStatus \cup {"none"} => mem'[k] = mem[k]
    BY DEF Live, Exists, Terminal
  <1>4. QueuesWellFormed'
    <2>1. \A t \in Targets : \A n \in DOMAIN runner[t].queue : runner[t].queue[n] \in OpIds
      BY DEF TypeOK
    <2> QED BY <1>2, <2>1 DEF IInv, QueuesWellFormed, Fresh, TargetOf
  <1>5. HeldWellFormed'
    <2> SUFFICES ASSUME NEW v \in Workers, worker'[v].op # None
                 PROVE  HeldWellFormed!(v)'
      BY DEF HeldWellFormed
    <2>1. worker[v].op \in OpIds /\ Live(worker[v].op)
      BY DEF TypeOK, WorkerState, IInv, HeldWellFormed
    <2>2. mem'[worker[v].op] = mem[worker[v].op]
      BY <1>3, <2>1 DEF Live, Exists, Terminal
    <2> QED BY <2>1, <2>2 DEF IInv, HeldWellFormed, Fresh, TargetOf, Live, Exists, Terminal
  <1>6. NothingStranded'
    <2>1. \A k \in OpIds : Live(k)' => Live(k)
      BY DEF Live, Exists, Terminal
    <2> QED BY <2>1 DEF IInv, NothingStranded, InQueue, Held
  <1>7. HistoryOK'
    <2>1. \A k \in cancelAcked : mem'[k].st # "queued"
      BY DEF IInv, HistoryOK, TypeOK, TerminalStatus
    <2> QED BY <2>1 DEF IInv, HistoryOK, NoSecondStart, OnlyAckedStart,
                       CancelBeforeStartHonored
  <1> QED BY <1>1, <1>4, <1>5, <1>6, <1>7 DEF IInv

(* The end of the process, orderly or not, keeps the invariant.            *)
LEMMA LoseMemoryStep ==
    ASSUME TypeOK, IInv, LoseMemory
    PROVE  IInv'
  <1>1. /\ \A i \in OpIds : mem'[i].st = "none"
        /\ \A w \in Workers : worker'[w] = Idle
        /\ \A t \in Targets : runner'[t] = [queue |-> << >>, busy |-> FALSE]
        /\ recon' = None /\ pending' = {}
        /\ UNCHANGED <<attr, disk, starts, acked, cancelAcked>>
    BY DEF LoseMemory, Absence, targetVars, histVars
  <1>2. WorkersWellFormed'
    BY <1>1 DEF WorkersWellFormed, Idle
  <1>3. KnownIds'
    BY <1>1, NoneIsNoId DEF IInv, KnownIds, Fresh, Exists, Idle
  <1>4. RunnersWellFormed' /\ QueuesWellFormed'
    BY <1>1, NoneIsNoId DEF RunnersWellFormed, QueuesWellFormed, Idle
  <1>5. HeldWellFormed' /\ NothingStranded'
    BY <1>1 DEF HeldWellFormed, NothingStranded, Live, Exists, Idle
  <1>6. HistoryOK'
    BY <1>1 DEF IInv, HistoryOK, NoSecondStart, OnlyAckedStart,
                CancelBeforeStartHonored, TypeOK
  <1> QED BY <1>2, <1>3, <1>4, <1>5, <1>6 DEF IInv

(* Every step keeps the invariant.                                         *)
LEMMA NextInv ==
    ASSUME TypeOK, IInv, Next
    PROVE  IInv'
  <1> USE DEF recordVars, execVars, cancelVars, reconVars, targetVars, histVars, boundVars
  <1>1. ASSUME NEW c \in Clients, NEW r \in Requests, NEW p \in Principals,
               NEW k \in Keys \cup {None},
               Enqueue(c, [req |-> r, principal |-> p, key |-> k, retryOf |-> None])
        PROVE  IInv'
    <2>1. KnownIds'
      BY <1>1 DEF Enqueue, IInv, KnownIds, Fresh, Exists
    <2> QED BY <1>1, <2>1, QuietStep DEF Enqueue
  <1>2. ASSUME NEW c \in Clients, NEW i \in OpIds, NEW p \in Principals, Retry(c, i, p)
        PROVE  IInv'
    <2>1. KnownIds'
      BY <1>2 DEF Retry, IInv, KnownIds, Fresh, Exists
    <2> QED BY <1>2, <2>1, QuietStep DEF Retry
  <1>3. ASSUME NEW c \in Clients, Refuse(c)
        PROVE  IInv'
    <2>1. KnownIds'
      BY <1>3 DEF Refuse, IInv, KnownIds, Fresh, Exists
    <2> QED BY <1>3, <2>1, QuietStep DEF Refuse
  <1>4. ASSUME NEW c \in Clients, NEW i \in OpIds, Admit(c, i)
        PROVE  IInv'
    BY <1>4, AdmitStep
  <1>5. ASSUME NEW w \in Workers, Pop(w) \/ Drain(w)
        PROVE  IInv'
    BY <1>5, PopStep, DrainStep
  <1>6. ASSUME NEW w \in Workers, CheckContext(w) \/ AcquireSlot(w) \/ CheckTarget(w)
        PROVE  IInv'
    <2>1. worker[w].pc \in BeforeStart /\ worker[w].op # None
      BY <1>6, HeldFacts DEF CheckContext, AcquireSlot, CheckTarget, At, BeforeStart
    <2>2. \/ \E pc \in {"slot", "check", "start"} : StepOnly(w, pc)
          \/ \E st \in {"canceled", "failed"} : Finish(w, st, "nil")
      BY <1>6 DEF CheckContext, AcquireSlot, CheckTarget
    <2> QED BY <2>1, <2>2, StepOnlyStep, FinishStep DEF TerminalStatus
  <1>7. ASSUME NEW w \in Workers, SetRunning(w)
        PROVE  IInv'
    BY <1>7, SetRunningStep
  <1>8. ASSUME NEW w \in Workers, FailUnsaved(w)
        PROVE  IInv'
    <2>1. worker[w].op # None
      BY <1>8, HeldFacts DEF FailUnsaved, At
    <2> QED BY <1>8, <2>1, FinishStep DEF FailUnsaved, TerminalStatus
  <1>9. ASSUME NEW w \in Workers, EffectLands(w)
        PROVE  IInv'
    <2>1. KnownIds'
      BY <1>9 DEF EffectLands, IInv, KnownIds, Fresh, Exists
    <2> QED BY <1>9, <2>1, QuietStep DEF EffectLands
  <1>10. ASSUME NEW w \in Workers, ExecReturn(w)
         PROVE  IInv'
    <2>1. PICK out \in {"succeeded", "failed"} :
              worker' = [worker EXCEPT ![w].pc = "returned", ![w].out = out]
      BY <1>10 DEF ExecReturn
    <2>2. worker[w].pc \in AfterStart /\ "returned" \in AfterStart
      BY <1>10 DEF ExecReturn, At, AfterStart
    <2>3. UNCHANGED <<phase, attr, mem, disk, runner, acked, cancelAcked, pending, recon,
                      starts>>
      BY <1>10 DEF ExecReturn
    <2> QED BY <2>1, <2>2, <2>3, AfterStartStep
  <1>11. ASSUME NEW w \in Workers, AfterExec(w)
         PROVE  IInv'
    <2> DEFINE j == worker[w].op
               r == [st |-> "stopping", rec |-> "nil"]
    <2>1. worker[w].pc = "returned" /\ worker[w].out \in {"succeeded", "failed"}
      BY <1>11 DEF AfterExec, At, IInv, WorkersWellFormed
    <2>2. PICK pc \in {"receipt", "decided"} : worker' = [worker EXCEPT ![w].pc = pc]
      BY <1>11 DEF AfterExec, StepOnly, GoTo
    <2>3. worker' = [worker EXCEPT ![w].pc = pc, ![w].out = worker[w].out]
      BY <2>2 DEF TypeOK, WorkerState
    <2>4. /\ \/ mem' = mem
             \/ mem' = [mem EXCEPT ![j] = r]
          /\ \A i \in OpIds : i # j => disk'[i] = disk[i]
          /\ UNCHANGED <<phase, attr, runner, acked, cancelAcked, pending, recon, starts>>
      BY <1>11 DEF AfterExec, StepOnly, SaveAdvisory, SaveOK, SaveFails, TypeOK
    <2>5. worker[w].pc \in AfterStart /\ pc \in AfterStart /\ pc # "answered"
      BY <2>1 DEF AfterStart
    <2> QED BY <2>1, <2>3, <2>4, <2>5, AfterStartStep
  <1>12. ASSUME NEW w \in Workers, FinishDecided(w)
         PROVE  IInv'
    <2>1. worker[w].op # None /\ worker[w].out \in TerminalStatus
      BY <1>12, HeldFacts DEF FinishDecided, At, IInv, WorkersWellFormed, TerminalStatus
    <2> QED BY <1>12, <2>1, FinishStep DEF FinishDecided
  <1>13. ASSUME NEW w \in Workers, ReadReceipt(w)
         PROVE  IInv'
    <2>1. PICK a \in ReconcileState :
              worker' = [worker EXCEPT ![w].pc = "answered", ![w].out = a]
      BY <1>13 DEF ReadReceipt, ReceiptAnswers, ReconcileState
    <2>2. worker[w].pc \in AfterStart /\ "answered" \in AfterStart
      BY <1>13 DEF ReadReceipt, At, AfterStart
    <2>3. UNCHANGED <<phase, attr, mem, disk, runner, acked, cancelAcked, pending, recon,
                      starts>>
      BY <1>13 DEF ReadReceipt
    <2> QED BY <2>1, <2>2, <2>3, AfterStartStep
  <1>14. ASSUME NEW w \in Workers, FinishCanceled(w)
         PROVE  IInv'
    <2>1. worker[w].op # None /\ worker[w].out \in ReconcileState
      BY <1>14, HeldFacts DEF FinishCanceled, At, IInv, WorkersWellFormed
    <2> QED BY <1>14, <2>1, FinishStep DEF FinishCanceled, TerminalStatus
  <1>15. ASSUME NEW i \in OpIds, Cancel(i)
         PROVE  IInv'
    BY <1>15, CancelStep
  <1>16. ASSUME NEW i \in OpIds, FireCancel(i)
         PROVE  IInv'
    <2>1. KnownIds'
      BY <1>16 DEF FireCancel, IInv, KnownIds, Fresh, Exists
    <2> QED BY <1>16, <2>1, QuietStep DEF FireCancel
  <1>17. ASSUME NEW i \in OpIds, ReconcileRead(i)
         PROVE  IInv'
    <2>1. KnownIds'
      BY <1>17 DEF ReconcileRead, IInv, KnownIds, Fresh, Exists
    <2> QED BY <1>17, <2>1, QuietStep DEF ReconcileRead
  <1>18. CASE ReconcileRecord
    <2> DEFINE j == recon.op
    <2>0. j \in OpIds /\ recon' = None /\ recon # None
      BY <1>18 DEF ReconcileRecord, TypeOK
    <2>1. UNCHANGED <<phase, attr, runner, worker, starts, acked, cancelAcked, pending>>
      BY <1>18 DEF ReconcileRecord
    <2>2. CASE ~Recordable(recon)
      <3>1. mem' = mem /\ disk' = disk
        BY <1>18, <2>2 DEF ReconcileRecord
      <3>2. KnownIds'
        BY <2>0, <2>1, <3>1 DEF IInv, KnownIds, Fresh, Exists
      <3> QED BY <2>1, <3>1, <3>2, QuietStep
    <2>3. CASE Recordable(recon)
      <3>1. mem[j].st = "interrupted" /\ mem[j] \in Record
        BY <2>0, <2>3 DEF Recordable, Reconciling, TypeOK, Absence
      <3>2. ~Live(j) /\ ~Fresh(j) /\ phase # "down"
        BY <2>0, <3>1 DEF Live, Exists, Terminal, TerminalStatus, IInv, KnownIds,
                          NothingStranded
      <3>3. [mem[j] EXCEPT !.rec = recon.answer].st = "interrupted"
        BY <3>1 DEF Record
      <3>4. \A k \in OpIds : k # j => mem'[k] = mem[k] /\ disk'[k] = disk[k]
        BY <1>18, <2>3 DEF ReconcileRecord, SaveOK, SaveFails, TypeOK
      <3>5. mem'[j].st = "interrupted"
        BY <1>18, <2>0, <2>3, <3>1, <3>3 DEF ReconcileRecord, TypeOK
      <3>6. KnownIds'
        BY <2>0, <2>1, <3>2, <3>4 DEF IInv, KnownIds, Fresh, Exists
      <3>7. \A k \in OpIds : \/ mem'[k] = mem[k]
                             \/ ~Live(k) /\ mem'[k].st \in TerminalStatus \cup {"none"}
        BY <3>2, <3>4, <3>5 DEF TerminalStatus
      <3> QED BY <2>1, <3>2, <3>6, <3>7, SettledStep
    <2> QED BY <2>2, <2>3
  <1>19. CASE ReconcileAbandon
    <2>1. KnownIds'
      BY <1>19 DEF ReconcileAbandon, IInv, KnownIds, Fresh, Exists
    <2> QED BY <1>19, <2>1, QuietStep DEF ReconcileAbandon
  <1>20. CASE Sweep
    <2>1. \A i \in OpIds : disk[i].st = "none" => disk'[i].st = "none"
      BY <1>20 DEF Sweep, Absence
    <2>2. KnownIds'
      BY <1>20, <2>1 DEF Sweep, IInv, KnownIds, Fresh, Exists
    <2> QED BY <1>20, <2>2, QuietStep DEF Sweep
  <1>21. CASE Retire
    <2>1. \A k \in OpIds : \/ mem'[k] = mem[k]
                           \/ ~Live(k) /\ mem'[k].st = "none"
      BY <1>21 DEF Retire, Live, Absence
    <2>2. UNCHANGED <<phase, attr, disk, runner, worker, starts, acked, cancelAcked,
                      pending, recon>>
      BY <1>21 DEF Retire
    <2>3. KnownIds'
      BY <2>1, <2>2 DEF IInv, KnownIds, Fresh, Exists
    <2>4. CASE phase = "down"
      <3>1. \A k \in OpIds : ~Exists(k)
        BY <2>4 DEF IInv, NothingStranded
      <3>2. mem' = mem
        BY <1>21, <3>1 DEF Retire, Terminal, Exists, TerminalStatus, TypeOK
      <3> QED BY <2>2, <2>3, <3>2, QuietStep
    <2> QED BY <2>1, <2>2, <2>3, <2>4, SettledStep
  <1>22. CASE Seal \/ ForceCancel \/ Tick
    <2>1. KnownIds'
      BY <1>22 DEF Seal, ForceCancel, Tick, IInv, KnownIds, Fresh, Exists
    <2> QED BY <1>22, <2>1, QuietStep DEF Seal, ForceCancel, Tick
  <1>23. CASE Exit \/ Crash
    BY <1>23, LoseMemoryStep DEF Exit, Crash
  <1>24. CASE Restart
    <2>1. \A i \in OpIds : /\ disk'[i].st \in TerminalStatus \cup {"none"}
                           /\ disk[i].st = "none" => disk'[i].st = "none"
      <3>1. \A i \in OpIds : disk[i] \in Record \cup {Absence}
        BY DEF TypeOK
      <3>2. \A i \in OpIds : disk'[i] = Absence \/ disk'[i] = Recovered(disk[i])
        BY <1>24 DEF Restart
      <3> QED BY <3>1, <3>2, RecoveredType DEF Absence
    <2>2. /\ mem' = disk' /\ phase' = "up" /\ phase = "down"
          /\ pending' = {i \in OpIds : /\ HasReceiptReader
                                       /\ disk'[i].st = "interrupted"
                                       /\ disk'[i].rec = "reconciling"}
          /\ UNCHANGED <<attr, runner, worker, starts, acked, cancelAcked, recon>>
      BY <1>24 DEF Restart
    <2>3. \A i \in OpIds : ~Live(i)
      BY <2>2 DEF IInv, NothingStranded, Live
    <2>4. KnownIds'
      BY <2>1, <2>2 DEF IInv, KnownIds, Fresh, Exists
    <2> QED BY <2>1, <2>2, <2>3, <2>4, SettledStep
  <1>25. CASE RestartFails
    <2>1. \A i \in OpIds : disk[i].st = "none" => disk'[i].st = "none"
      <3>1. \A i \in OpIds : disk[i] \in Record \cup {Absence}
        BY DEF TypeOK
      <3>2. \A i \in OpIds : \/ disk'[i] = Absence \/ disk'[i] = disk[i]
                             \/ disk'[i] = Recovered(disk[i])
        BY <1>25 DEF RestartFails
      <3> QED BY <3>1, <3>2, RecoveredType DEF Absence
    <2>2. KnownIds'
      BY <1>25, <2>1 DEF RestartFails, IInv, KnownIds, Fresh, Exists
    <2> QED BY <1>25, <2>2, QuietStep DEF RestartFails
  <1> QED
    BY <1>1, <1>2, <1>3, <1>4, <1>5, <1>6, <1>7, <1>8, <1>9, <1>10, <1>11, <1>12,
       <1>13, <1>14, <1>15, <1>16, <1>17, <1>18, <1>19, <1>20, <1>21, <1>22, <1>23,
       <1>24, <1>25 DEF Next, WorkerStep

(* The initial state satisfies the invariant.                              *)
LEMMA InitInv == Init => TypeOK /\ IInv
  <1> SUFFICES ASSUME Init PROVE TypeOK /\ IInv
    OBVIOUS
  <1>1. TypeOK
    <2>1. worker \in [Workers -> WorkerState]
      BY WorkerIdle DEF Init
    <2>2. runner \in [Targets -> [queue: Seq(OpIds), busy: BOOLEAN]]
      BY DEF Init
    <2>3. recordErr \in BOOLEAN
      BY DEF Init
    <2> QED BY <2>1, <2>2, <2>3 DEF Init, TypeOK
  <1>2. WorkersWellFormed /\ RunnersWellFormed /\ QueuesWellFormed
    BY NoneIsNoId DEF Init, WorkersWellFormed, RunnersWellFormed, QueuesWellFormed, Idle
  <1>3. KnownIds
    BY NoneIsNoId DEF Init, KnownIds, Exists, Absence, Idle
  <1>4. HeldWellFormed /\ NothingStranded
    BY DEF Init, HeldWellFormed, NothingStranded, Live, Exists, Absence, Idle
  <1>5. HistoryOK
    BY DEF Init, HistoryOK, NoSecondStart, OnlyAckedStart, CancelBeforeStartHonored
  <1> QED BY <1>1, <1>2, <1>3, <1>4, <1>5 DEF IInv

(* The inductive invariant holds in every reachable state, for any number  *)
(* of operations, targets, callers, faults and crashes.                    *)
THEOREM Invariance == Spec => [](TypeOK /\ IInv)
  <1>1. Init => TypeOK /\ IInv
    BY InitInv
  <1>2. TypeOK /\ IInv /\ [Next]_vars => (TypeOK /\ IInv)'
    <2> SUFFICES ASSUME TypeOK, IInv, [Next]_vars PROVE (TypeOK /\ IInv)'
      OBVIOUS
    <2>1. CASE Next
      BY <2>1, NextType, NextInv DEF IInv
    <2>2. CASE UNCHANGED vars
      <3> USE <2>2 DEF vars, recordVars, execVars, cancelVars, reconVars, targetVars,
                       histVars, boundVars
      <3>1. TypeOK'
        BY DEF TypeOK
      <3>2. KnownIds'
        BY DEF IInv, KnownIds, Fresh, Exists
      <3>3. IInv'
        BY <3>2, QuietStep
      <3> QED BY <3>1, <3>3
    <2> QED BY <2>1, <2>2
  <1> QED BY <1>1, <1>2, PTL DEF Spec

(* Type correctness of the manager's state.                                *)
THEOREM Typing == Spec => []TypeOK
  BY Invariance, PTL

(* A command is handed to the executor at most once per operation, across  *)
(* cancels, failed saves, crashes and restarts.                            *)
THEOREM AtMostOneStart == Spec => []NoSecondStart
  <1>1. IInv => NoSecondStart
    BY DEF IInv, HistoryOK
  <1> QED BY <1>1, Invariance, PTL

(* An operation whose enqueue reported an error never executes (A08).      *)
THEOREM OnlyAcknowledgedWorkRuns == Spec => []OnlyAckedStart
  <1>1. IInv => OnlyAckedStart
    BY DEF IInv, HistoryOK
  <1> QED BY <1>1, Invariance, PTL

(* A cancel acknowledged while the operation was queued keeps its command  *)
(* from ever running (A09).                                                *)
THEOREM QueuedCancelWins == Spec => []CancelBeforeStartHonored
  <1>1. IInv => CancelBeforeStartHonored
    BY DEF IInv, HistoryOK
  <1> QED BY <1>1, Invariance, PTL

(* Two goroutines never serve one target.                                  *)
THEOREM SerialTargets == Spec => []OneRunnerPerTarget
  <1>1. IInv => OneRunnerPerTarget
    BY DEF IInv, OneRunnerPerTarget, RunnersWellFormed, WorkersWellFormed
  <1> QED BY <1>1, Invariance, PTL

(* While the process is up, an operation is live exactly when a queue with *)
(* a goroutine, or a goroutine, holds it.                                  *)
THEOREM NothingIsStranded == Spec => []LiveIsOwned
  <1>1. TypeOK /\ IInv => LiveIsOwned
    <2> SUFFICES ASSUME TypeOK, IInv PROVE LiveIsOwned
      OBVIOUS
    <2>2. ASSUME NEW i \in OpIds, InQueue(i) \/ Held(i)
          PROVE  Live(i)
      <3>1. CASE InQueue(i)
        BY <3>1 DEF InQueue, IInv, QueuesWellFormed, Live, Exists, Terminal, Waiting,
                    TerminalStatus
      <3>2. CASE Held(i)
        BY <3>2, NoneIsNoId DEF Held, IInv, HeldWellFormed
      <3> QED BY <2>2, <3>1, <3>2
    <2>3. \A i \in OpIds : Live(i) <=> InQueue(i) \/ Held(i)
      BY <2>2 DEF IInv, NothingStranded
    <2>4. \A t \in Targets : runner[t].queue # << >> =>
                                \E w \in Workers : worker[w].target = t
      BY DEF IInv, RunnersWellFormed
    <2> QED BY <2>3, <2>4 DEF LiveIsOwned
  <1> QED BY <1>1, Invariance, PTL
=============================================================================
