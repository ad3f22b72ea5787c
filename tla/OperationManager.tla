-------------------------- MODULE OperationManager --------------------------
(***************************************************************************)
(* The durable operation service of teploy-dash (internal/operation):      *)
(* admission with idempotency keys and budgets, one FIFO runner goroutine  *)
(* per target, bounded CLI execution, cancellation, bounded shutdown,      *)
(* crash recovery with receipt reconciliation, and retention.              *)
(*                                                                         *)
(* An action is one critical section of the manager mutex, or one call     *)
(* made outside it; what happens between two of them is the interleaving   *)
(* the code allows.  The event journal has a module of its own             *)
(* (OperationJournal); the CLI, the target and its receipts are external.  *)
(***************************************************************************)
EXTENDS Integers, Sequences, FiniteSets

CONSTANTS
    OpIds,                \* operation ids (newID: 16 random bytes, never reused)
    Targets,              \* server/app pairs, the unit of FIFO execution
    Images,               \* what a deploy can put on a target
    Absent,               \* the target state "app not in teploy app list"
    Requests,             \* the requests callers submit
    Principals,           \* idempotency namespaces (IdempotencyScope)
    NoAuth,               \* the namespace of a nil actor (NoAuthScope)
    Keys,                 \* client-chosen idempotency keys
    Clients,              \* concurrent HTTP/MCP callers
    Workers,              \* goroutines that may run runTarget at the same time
    None,                 \* no operation, no key, no image
    HasReceiptReader,     \* Options.ReceiptReader is non-nil
    MaxQueuedPerTarget, MaxLive, MaxLivePerPrincipal, ExecutorSlots,
    IdempotencyWindow, MaxHistoryAge, MaxOperations,  \* Options; < 1 disables
    MaxTime, MaxFaults, MaxCrashes    \* bounds of the model, not of the code

ASSUME ConstantsAssumption ==
    /\ None \notin OpIds \cup Targets \cup Keys \cup Images \cup Clients \cup Workers \cup {Absent}
    /\ Absent \notin Images
    /\ NoAuth \in Principals
    /\ Requests \subseteq [kind: {"deploy", "remove", "other"}, target: Targets,
                           image: Images \cup {None}, secret: BOOLEAN]
    /\ HasReceiptReader \in BOOLEAN
    /\ {MaxQueuedPerTarget, MaxLive, MaxLivePerPrincipal, ExecutorSlots,
        IdempotencyWindow, MaxHistoryAge, MaxOperations} \subseteq Int
    /\ {MaxTime, MaxFaults, MaxCrashes} \subseteq Nat

VARIABLES
    phase,        \* process: "down", "up", "closing" (sealed), "forced"
    attr,         \* the immutable half of a record, per id ever generated
    mem,          \* m.operations: the mutable half, st = "none" when absent
    disk,         \* the record files
    index,        \* m.idempotency
    client,       \* callers between the two critical sections of enqueue
    runner,       \* m.targets: per-target queue and busy flag
    worker,       \* the runTarget goroutines
    ctxDone,      \* operations whose context is canceled
    cancelling,   \* operations whose cancel() is due and not called yet
    pending,      \* ids the startup reconcile loop still has to read
    recon,        \* the receipt it has read and not yet recorded
    sweeping,     \* ids a sweep removed from disk and not yet from memory
    recordErr,    \* Health: the last record write of this channel failed
    admissionSeq, \* m.admissionSeq
    installed,    \* external: what each target runs
    landed,       \* history: operations whose effect reached the target
    starts,       \* history: how often the executor was called per operation
    acked,        \* history: operations whose admission was acknowledged
    cancelAcked,  \* history: cancels acknowledged before the command started
    clock, faults, crashes

recordVars == <<attr, mem, disk, index, admissionSeq, recordErr>>
execVars   == <<runner, worker>>
cancelVars == <<ctxDone, cancelling>>
reconVars  == <<pending, recon>>
targetVars == <<installed, landed, starts>>
histVars   == <<acked, cancelAcked>>
boundVars  == <<clock, faults, crashes>>

vars == <<phase, recordVars, client, execVars, cancelVars, reconVars, sweeping,
          targetVars, histVars, boundVars>>

-----------------------------------------------------------------------------
(* Records                                                                 *)

Status == {"queued", "running", "cancel_requested", "stopping", "succeeded",
           "failed", "canceled", "already_committed", "interrupted"}

TerminalStatus == {"succeeded", "failed", "canceled", "already_committed",
                   "interrupted"}

ReconcileState == {"reconciling", "applied", "not_applied", "manual"}

Absence == [st |-> "none", rec |-> "nil"]
Record  == [st: Status, rec: ReconcileState \cup {"nil"}]

Attr == [req: Requests, principal: Principals, key: Keys \cup {None},
         retryOf: OpIds \cup {None}, created: Nat, seq: Nat]

ASSUME NoneIsNoRecord == None \notin Attr

Exists(i)   == mem[i].st # "none"
Terminal(i) == mem[i].st \in TerminalStatus
Live(i)     == Exists(i) /\ ~Terminal(i)
Fresh(i)    == attr[i] = None
TargetOf(i) == attr[i].req.target
KeyOf(i)    == <<attr[i].principal, attr[i].key>>

(* saveOperation is temp + sync + rename + directory sync: it can fail     *)
(* before the rename (nothing visible) or after it (the record is visible  *)
(* although the caller is told it is not).                                 *)
SaveOK(i, r) ==
    /\ disk' = [disk EXCEPT ![i] = r]
    /\ UNCHANGED faults

SaveFails(i, r) ==
    /\ faults < MaxFaults
    /\ faults' = faults + 1
    /\ \/ UNCHANGED disk
       \/ disk' = [disk EXCEPT ![i] = r]

(* A save whose failure is only surfaced through Health.                   *)
SaveAdvisory(i, r) ==
    \/ SaveOK(i, r) /\ recordErr' = FALSE
    \/ SaveFails(i, r) /\ recordErr' = TRUE

-----------------------------------------------------------------------------
(* Idempotency                                                             *)

InWindow(t) == IdempotencyWindow < 1 \/ clock - t <= IdempotencyWindow

Namespaces == Principals \X Keys

(* The outcome of lookupReplayLocked: an entry whose operation was retired *)
(* or is past the window is dropped and the key is free again.             *)
Stale(ns) == index[ns] # None /\
             (~Exists(index[ns]) \/ ~InWindow(attr[index[ns]].created))

Hit(call) == /\ call.key # None
             /\ index[<<call.principal, call.key>>] # None
             /\ ~Stale(<<call.principal, call.key>>)

DropStale(call) ==
    IF call.key # None /\ Stale(<<call.principal, call.key>>)
    THEN [index EXCEPT ![<<call.principal, call.key>>] = None]
    ELSE index

-----------------------------------------------------------------------------
(* Admission: enqueue and Retry                                            *)

Call == [req: Requests, principal: Principals, key: Keys \cup {None},
         retryOf: OpIds \cup {None}]

(* The first critical section of enqueue: sealed admission refuses, a hit  *)
(* is answered as a replay or a conflict (neither changes state), anything *)
(* else goes on to Build outside the mutex.                                *)
Enqueue(c, call) ==
    /\ phase = "up"
    /\ client[c] = None
    /\ ~Hit(call)
    /\ client' = [client EXCEPT ![c] = call]
    /\ index' = DropStale(call)
    /\ UNCHANGED <<phase, attr, mem, disk, admissionSeq, recordErr, execVars,
                   cancelVars, reconVars, sweeping, targetVars, histVars,
                   boundVars>>

Retryable(i) ==
    /\ Terminal(i)
    /\ mem[i].st \notin {"succeeded", "already_committed"}
    /\ ~attr[i].req.secret
    /\ ~(mem[i].st = "interrupted" /\ mem[i].rec = "reconciling")

(* Retry checks under the mutex, releases it, and enqueues a copy of the   *)
(* request with no key; the first section of enqueue then only re-checks   *)
(* the seal, as Admit does again.                                          *)
Retry(c, i, p) ==
    /\ phase = "up"
    /\ client[c] = None
    /\ Retryable(i)
    /\ client' = [client EXCEPT ![c] = [req |-> attr[i].req, principal |-> p,
                                        key |-> None, retryOf |-> i]]
    /\ UNCHANGED <<phase, recordVars, execVars, cancelVars, reconVars, sweeping,
                   targetVars, histVars, boundVars>>

Depth(t) == Cardinality({i \in OpIds : Live(i) /\ TargetOf(i) = t})
LiveCount == Cardinality({i \in OpIds : Live(i)})
LiveOf(p) == Cardinality({i \in OpIds : Live(i) /\ attr[i].principal = p})

TargetBudgetFull(t) == MaxQueuedPerTarget > 0 /\ Depth(t) >= MaxQueuedPerTarget
GlobalBudgetFull == MaxLive > 0 /\ LiveCount >= MaxLive
PrincipalBudgetFull(p) == MaxLivePerPrincipal > 0 /\ LiveOf(p) >= MaxLivePerPrincipal

(* A call that ends without an operation: sealed admission, a replay or a  *)
(* conflict found by the second lookup, a full budget, a failing Build, or *)
(* a failing first journal append.  The lookup, if it is reached, drops a  *)
(* stale index entry.                                                      *)
Refuse(c) ==
    /\ client[c] # None
    /\ client' = [client EXCEPT ![c] = None]
    /\ \/ UNCHANGED index
       \/ phase = "up" /\ index' = DropStale(client[c])
    /\ UNCHANGED <<phase, attr, mem, disk, admissionSeq, recordErr, execVars,
                   cancelVars, reconVars, sweeping, targetVars, histVars,
                   boundVars>>

Idle       == [pc |-> "idle", target |-> None, op |-> None, out |-> None]
Looping(t) == [pc |-> "loop", target |-> t,    op |-> None, out |-> None]

(* Mutant: the busy flag is not consulted, every admission starts a runner.*)
AdmitToTargetAlwaysStarts(t, i) ==
    /\ runner' = [runner EXCEPT ![t] = [queue |-> Append(@.queue, i), busy |-> TRUE]]
    /\ \E w \in Workers :
          /\ worker[w] = Idle
          /\ worker' = [worker EXCEPT ![w] = Looping(t)]

(* Mutant: the goroutine of an idle target is never started.               *)
AdmitToTargetNeverStarts(t, i) ==
    /\ runner' = [runner EXCEPT ![t] = [queue |-> Append(@.queue, i), busy |-> TRUE]]
    /\ UNCHANGED worker

(* admitToTarget: append to the target's queue, start a runner if none is. *)
AdmitToTarget(t, i) ==
    /\ runner' = [runner EXCEPT ![t] = [queue |-> Append(@.queue, i), busy |-> TRUE]]
    /\ IF runner[t].busy
       THEN UNCHANGED worker
       ELSE \E w \in Workers :
               /\ worker[w] = Idle
               /\ worker' = [worker EXCEPT ![w] = Looping(t)]

(* Mutant: the lookup is not repeated after Build.                         *)
MayAdmitNoRecheck(call) ==
    /\ phase = "up"
    /\ ~TargetBudgetFull(call.req.target)
    /\ ~GlobalBudgetFull
    /\ ~PrincipalBudgetFull(call.principal)

MayAdmit(call) ==
    /\ phase = "up"
    /\ ~Hit(call)
    /\ ~TargetBudgetFull(call.req.target)
    /\ ~GlobalBudgetFull
    /\ ~PrincipalBudgetFull(call.principal)

(* Mutant: published before the record commits (the order A25 replaced).   *)
AdmitPublishFirst(c, i) ==
    LET call == client[c]
        q    == [st |-> "queued", rec |-> "nil"]
    IN  /\ call # None
        /\ MayAdmit(call)
        /\ Fresh(i)
        /\ admissionSeq' = admissionSeq + 1
        /\ attr' = [attr EXCEPT ![i] =
                      [req |-> call.req, principal |-> call.principal,
                       key |-> call.key, retryOf |-> call.retryOf,
                       created |-> clock, seq |-> admissionSeq + 1]]
        /\ client' = [client EXCEPT ![c] = None]
        /\ mem' = [mem EXCEPT ![i] = q]
        /\ AdmitToTarget(call.req.target, i)
        /\ \/ SaveOK(i, q) /\ acked' = acked \cup {i} /\ UNCHANGED recordErr
           \/ SaveFails(i, q) /\ recordErr' = TRUE /\ UNCHANGED acked
        /\ UNCHANGED <<phase, index, cancelVars, reconVars, sweeping, targetVars,
                       cancelAcked, clock, crashes>>

(* The second critical section of enqueue.  The record is the commit       *)
(* point: nothing is published in memory when its save reports failure.    *)
Admit(c, i) ==
    LET call == client[c]
        q    == [st |-> "queued", rec |-> "nil"]
    IN  /\ call # None
        /\ MayAdmit(call)
        /\ Fresh(i)
        /\ admissionSeq' = admissionSeq + 1
        /\ attr' = [attr EXCEPT ![i] =
                      [req |-> call.req, principal |-> call.principal,
                       key |-> call.key, retryOf |-> call.retryOf,
                       created |-> clock, seq |-> admissionSeq + 1]]
        /\ client' = [client EXCEPT ![c] = None]
        /\ \/ /\ SaveOK(i, q)
              /\ mem' = [mem EXCEPT ![i] = q]
              /\ index' = IF call.key = None THEN index
                          ELSE [index EXCEPT ![<<call.principal, call.key>>] = i]
              /\ AdmitToTarget(call.req.target, i)
              /\ acked' = acked \cup {i}
              /\ UNCHANGED recordErr
           \/ /\ SaveFails(i, q)
              /\ index' = DropStale(call)
              /\ recordErr' = TRUE
              /\ UNCHANGED <<mem, execVars, acked>>
        /\ UNCHANGED <<phase, cancelVars, reconVars, sweeping, targetVars,
                       cancelAcked, clock, crashes>>

-----------------------------------------------------------------------------
(* Execution: runTarget and execute                                        *)

At(w, pc) == worker[w].pc = pc /\ phase # "down"

GoTo(w, pc) == worker' = [worker EXCEPT ![w].pc = pc]

HoldsSlot(w) == worker[w].pc \in {"check", "start", "unsaved", "exec", "returned",
                                  "decided", "receipt", "answered"}

(* Mutant: the newest job is taken first.                                  *)
PopNewest(w) ==
    LET t == worker[w].target
        n == Len(runner[t].queue)
    IN  /\ At(w, "loop")
        /\ n > 0
        /\ worker' = [worker EXCEPT ![w].pc = "popped", ![w].op = runner[t].queue[n]]
        /\ runner' = [runner EXCEPT ![t].queue = SubSeq(@, 1, n - 1)]
        /\ UNCHANGED <<phase, recordVars, client, cancelVars, reconVars, sweeping,
                       targetVars, histVars, boundVars>>

(* runTarget pops the front of its queue, or deletes the runner and exits. *)
Pop(w) ==
    LET t == worker[w].target
    IN  /\ At(w, "loop")
        /\ runner[t].queue # << >>
        /\ worker' = [worker EXCEPT ![w].pc = "popped", ![w].op = Head(runner[t].queue)]
        /\ runner' = [runner EXCEPT ![t].queue = Tail(@)]
        /\ UNCHANGED <<phase, recordVars, client, cancelVars, reconVars, sweeping,
                       targetVars, histVars, boundVars>>

(* Mutant: the runner is deleted without looking at its queue again.       *)
DrainUnconditional(w) ==
    /\ At(w, "loop")
    /\ worker' = [worker EXCEPT ![w] = Idle]
    /\ runner' = [runner EXCEPT ![worker[w].target] = [queue |-> << >>, busy |-> FALSE]]
    /\ UNCHANGED <<phase, recordVars, client, cancelVars, reconVars, sweeping,
                   targetVars, histVars, boundVars>>

Drain(w) ==
    LET t == worker[w].target
    IN  /\ At(w, "loop")
        /\ runner[t].queue = << >>
        /\ worker' = [worker EXCEPT ![w] = Idle]
        /\ runner' = [runner EXCEPT ![t] = [queue |-> << >>, busy |-> FALSE]]
        /\ UNCHANGED <<phase, recordVars, client, cancelVars, reconVars, sweeping,
                       targetVars, histVars, boundVars>>

(* Mutant: the terminal record is not saved.                               *)
FinishUnsaved(w, st, rec) ==
    /\ mem' = [mem EXCEPT ![worker[w].op] = [st |-> st, rec |-> rec]]
    /\ worker' = [worker EXCEPT ![w] = Looping(worker[w].target)]
    /\ UNCHANGED <<phase, attr, disk, recordErr, index, admissionSeq, client, runner,
                   cancelVars, reconVars, sweeping, targetVars, histVars, boundVars>>

(* finishReconciled: a terminal operation is left alone, otherwise the     *)
(* outcome is decided and a failing save cannot change it.  The worker     *)
(* then releases its slot and returns to its loop.                         *)
Finish(w, st, rec) ==
    LET i == worker[w].op
        r == [st |-> st, rec |-> rec]
    IN  /\ IF Live(i)
           THEN mem' = [mem EXCEPT ![i] = r] /\ SaveAdvisory(i, r)
           ELSE UNCHANGED <<mem, disk, recordErr, faults>>
        /\ worker' = [worker EXCEPT ![w] = Looping(worker[w].target)]
        /\ UNCHANGED <<phase, attr, index, admissionSeq, client, runner, cancelVars,
                       reconVars, sweeping, targetVars, histVars, clock, crashes>>

StepOnly(w, pc) ==
    /\ GoTo(w, pc)
    /\ UNCHANGED <<phase, recordVars, client, runner, cancelVars, reconVars, sweeping,
                   targetVars, histVars, boundVars>>

(* A cancellation that landed while the job was queued resolves here.      *)
CheckContext(w) ==
    /\ At(w, "popped")
    /\ IF worker[w].op \in ctxDone
       THEN Finish(w, "canceled", "nil")
       ELSE StepOnly(w, "slot")

(* select { case executorSlots <- : case <-ctx.Done() }                    *)
AcquireSlot(w) ==
    /\ At(w, "slot")
    /\ \/ /\ ExecutorSlots < 1 \/ Cardinality({v \in Workers : HoldsSlot(v)}) < ExecutorSlots
          /\ StepOnly(w, "check")
       \/ /\ worker[w].op \in ctxDone
          /\ Finish(w, "canceled", "nil")

(* checkTarget: the admitted server snapshot still resolves to the same    *)
(* machine, or the operation fails (servers.yml is external).              *)
CheckTarget(w) ==
    /\ At(w, "check")
    /\ \/ StepOnly(w, "start")
       \/ Finish(w, "failed", "nil")

(* Mutant: the cancel intent is overwritten by running (the race A09 fixed).*)
SetRunningBlind(w) ==
    LET i == worker[w].op
        r == [st |-> "running", rec |-> "nil"]
    IN  /\ At(w, "start")
        /\ mem' = [mem EXCEPT ![i] = r]
        /\ SaveOK(i, r) /\ recordErr' = FALSE
        /\ GoTo(w, "exec")
        /\ starts' = [starts EXCEPT ![i] = @ + 1]
        /\ UNCHANGED <<phase, attr, index, admissionSeq, client, runner, cancelVars,
                       reconVars, sweeping, installed, landed, histVars, clock, crashes>>

(* setRunning: a durable cancel intent wins; a queued operation is saved   *)
(* as running before the executor is called.  On a failed save the status  *)
(* in memory has already moved and execute fails the operation.  Any other *)
(* status is passed to the executor as it is.                              *)
SetRunning(w) ==
    LET i == worker[w].op
        r == [st |-> "running", rec |-> "nil"]
        begin == GoTo(w, "exec") /\ starts' = [starts EXCEPT ![i] = @ + 1]
    IN  /\ At(w, "start")
        /\ IF mem[i].st = "cancel_requested" THEN Finish(w, "canceled", "nil")
           ELSE /\ IF mem[i].st = "queued"
                   THEN /\ mem' = [mem EXCEPT ![i] = r]
                        /\ \/ SaveOK(i, r) /\ recordErr' = FALSE /\ begin
                           \/ /\ SaveFails(i, r) /\ recordErr' = TRUE
                              /\ GoTo(w, "unsaved") /\ UNCHANGED starts
                   ELSE begin /\ UNCHANGED <<mem, disk, recordErr, faults>>
                /\ UNCHANGED <<phase, attr, index, admissionSeq, client, runner,
                               cancelVars, reconVars, sweeping, installed, landed,
                               histVars, clock, crashes>>

FailUnsaved(w) ==
    /\ At(w, "unsaved")
    /\ Finish(w, "failed", "nil")

(* External: the CLI's effect on the target.                               *)
EffectOf(req, s) ==
    CASE req.kind = "deploy" -> req.image
      [] req.kind = "remove" -> Absent
      [] OTHER               -> s

EffectLands(w) ==
    LET i == worker[w].op
    IN  /\ At(w, "exec")
        /\ i \notin landed
        /\ landed' = landed \cup {i}
        /\ installed' = [installed EXCEPT ![TargetOf(i)] = EffectOf(attr[i].req, @)]
        /\ UNCHANGED <<phase, recordVars, client, execVars, cancelVars, reconVars,
                       sweeping, starts, histVars, boundVars>>

(* Mutant: a command that fails is run again in place.                     *)
ExecReturnRetries(w) ==
    /\ At(w, "exec")
    /\ \/ /\ worker[w].op \in landed
          /\ worker' = [worker EXCEPT ![w].pc = "returned", ![w].out = "succeeded"]
          /\ UNCHANGED starts
       \/ /\ starts' = [starts EXCEPT ![worker[w].op] = @ + 1]
          /\ UNCHANGED worker
    /\ UNCHANGED <<phase, recordVars, client, runner, cancelVars, reconVars, sweeping,
                   installed, landed, histVars, boundVars>>

(* The executor returns: exit 0 only after the effect, an error any time   *)
(* (Command.Timeout bounds every run; a canceled context kills it).        *)
ExecReturn(w) ==
    /\ At(w, "exec")
    /\ \E out \in {"succeeded", "failed"} :
          /\ out = "succeeded" => worker[w].op \in landed
          /\ worker' = [worker EXCEPT ![w].pc = "returned", ![w].out = out]
    /\ UNCHANGED <<phase, recordVars, client, runner, cancelVars, reconVars, sweeping,
                   targetVars, histVars, boundVars>>

(* j.ctx.Err() is read after the executor returned: a cancellation that is *)
(* visible now is resolved against the receipt (beginStopping), one that   *)
(* arrives later loses to the recorded outcome.                            *)
AfterExec(w) ==
    LET i == worker[w].op
        r == [st |-> "stopping", rec |-> "nil"]
    IN  /\ At(w, "returned")
        /\ IF i \in ctxDone
           THEN /\ mem' = [mem EXCEPT ![i] = r]
                /\ SaveAdvisory(i, r)
                /\ GoTo(w, "receipt")
                /\ UNCHANGED <<phase, attr, index, admissionSeq, client, runner,
                               cancelVars, reconVars, sweeping, targetVars, histVars,
                               clock, crashes>>
           ELSE StepOnly(w, "decided")

FinishDecided(w) ==
    /\ At(w, "decided")
    /\ Finish(w, worker[w].out, "nil")

(* Mutant: a failed read is taken for "not applied".                       *)
ReceiptGuesses(req, s) == {"not_applied"} \cup IF s = req.image THEN {"applied"} ELSE {}

(* What operationReceipt can answer for a request when the target runs s:  *)
(* a deploy that pinned no image can only be found absent, and every read  *)
(* may also fail, which is never read as "not applied".                    *)
ReceiptAnswers(req, s) ==
    {"manual"} \cup
    (IF ~HasReceiptReader THEN {}
     ELSE CASE req.kind = "deploy" -> IF s = Absent THEN {"not_applied"}
                                      ELSE IF req.image \in Images /\ s = req.image
                                           THEN {"applied"} ELSE {}
            [] req.kind = "remove" -> {IF s = Absent THEN "applied" ELSE "not_applied"}
            [] OTHER -> {})

(* resolveCancellation: the read is skipped in the forced shutdown phase.  *)
ReadReceipt(w) ==
    LET i == worker[w].op
    IN  /\ At(w, "receipt")
        /\ \E a \in IF phase = "forced" THEN {"manual"}
                    ELSE ReceiptAnswers(attr[i].req, installed[TargetOf(i)]) :
              worker' = [worker EXCEPT ![w].pc = "answered", ![w].out = a]
        /\ UNCHANGED <<phase, recordVars, client, runner, cancelVars, reconVars,
                       sweeping, targetVars, histVars, boundVars>>

FinishCanceled(w) ==
    /\ At(w, "answered")
    /\ Finish(w, IF worker[w].out = "applied" THEN "already_committed" ELSE "canceled",
              worker[w].out)

-----------------------------------------------------------------------------
(* Cancel: the intent is persisted under the mutex, cancel() runs after it *)

(* Mutant: a terminal operation can be canceled.                           *)
CancelableAnytime(i) == Exists(i)

Cancelable(i) == Live(i) /\ mem[i].st # "stopping"

Cancel(i) ==
    LET r == [mem[i] EXCEPT !.st = "cancel_requested"]
    IN  /\ phase # "down"
        /\ Cancelable(i)
        /\ \/ /\ SaveOK(i, r)
              /\ recordErr' = FALSE
              /\ mem' = [mem EXCEPT ![i] = r]
              /\ cancelling' = cancelling \cup {i}
              /\ cancelAcked' = IF mem[i].st = "queued" THEN cancelAcked \cup {i} ELSE cancelAcked
           \/ /\ SaveFails(i, r)
              /\ recordErr' = TRUE
              /\ UNCHANGED <<mem, cancelling, cancelAcked>>
        /\ UNCHANGED <<phase, attr, index, admissionSeq, client, execVars, ctxDone,
                       reconVars, sweeping, targetVars, acked, clock, crashes>>

FireCancel(i) ==
    /\ i \in cancelling
    /\ cancelling' = cancelling \ {i}
    /\ ctxDone' = ctxDone \cup {i}
    /\ UNCHANGED <<phase, recordVars, client, execVars, reconVars, sweeping,
                   targetVars, histVars, boundVars>>

-----------------------------------------------------------------------------
(* Retention: sweepRetention works on the record files without the manager *)
(* mutex; retire removes the swept ids from memory afterwards.             *)

Records      == {i \in OpIds : disk[i].st # "none"}
DiskTerminal == {i \in OpIds : disk[i].st \in TerminalStatus}
Aged         == {i \in DiskTerminal :
                    MaxHistoryAge > 0 /\ clock - attr[i].created > MaxHistoryAge}
Excess       == IF MaxOperations < 1 THEN 0
                ELSE Cardinality(Records) - Cardinality(Aged) - MaxOperations

(* The age pass takes every aged terminal record, the count pass the       *)
(* oldest remaining terminal ones until the bound holds.                   *)
IsSweep(V) ==
    LET rest   == DiskTerminal \ Aged
        byCount == V \ Aged
    IN  /\ Aged \subseteq V
        /\ byCount \subseteq rest
        /\ \A i \in byCount, j \in rest \ byCount : attr[i].created <= attr[j].created
        /\ \/ Excess <= 0 /\ byCount = {}
           \/ Excess > 0 /\ byCount = rest /\ Cardinality(rest) <= Excess
           \/ Excess > 0 /\ Cardinality(byCount) = Excess

OverCount == /\ MaxOperations > 0
             /\ Cardinality({i \in OpIds : Exists(i)}) > MaxOperations

Sweep ==
    /\ phase = "up" \/ (phase # "down" /\ OverCount)
    /\ sweeping = {}
    /\ \E V \in SUBSET OpIds :
          /\ V # {}
          /\ IsSweep(V)
          /\ sweeping' = V
          /\ disk' = [i \in OpIds |-> IF i \in V THEN Absence ELSE disk[i]]
    /\ UNCHANGED <<phase, attr, mem, index, admissionSeq, recordErr, client, execVars,
                   cancelVars, reconVars, targetVars, histVars, boundVars>>

(* retire forgets a swept operation and the index entry of its key, then   *)
(* prunes the entries whose operation is gone or past the window.          *)
Retire ==
    LET gone == {i \in sweeping : Terminal(i)}
    IN  /\ sweeping # {}
        /\ sweeping' = {}
        /\ mem' = [i \in OpIds |-> IF i \in gone THEN Absence ELSE mem[i]]
        /\ index' = [ns \in Namespaces |->
                        IF \/ \E i \in gone : KeyOf(i) = ns
                           \/ Stale(ns)
                           \/ index[ns] \in gone
                        THEN None ELSE index[ns]]
        /\ UNCHANGED <<phase, attr, disk, admissionSeq, recordErr, client, execVars,
                       cancelVars, reconVars, targetVars, histVars, boundVars>>

-----------------------------------------------------------------------------
(* Startup reconciliation: reads run without the mutex, one at a time      *)

Reconciling(i) == mem[i].st = "interrupted" /\ mem[i].rec = "reconciling"

ReconcileRead(i) ==
    /\ phase \in {"up", "closing"}
    /\ recon = None
    /\ i \in pending
    /\ pending' = pending \ {i}
    /\ IF Reconciling(i)
       THEN \E a \in ReceiptAnswers(attr[i].req, installed[TargetOf(i)]) :
               recon' = [op |-> i, answer |-> a]
       ELSE UNCHANGED recon
    /\ UNCHANGED <<phase, recordVars, client, execVars, cancelVars, sweeping,
                   targetVars, histVars, boundVars>>

(* Mutant: a read that failed leaves the question open.                    *)
AnswersOnly(r) == Reconciling(r.op) /\ r.answer # "manual"

Recordable(r) == Reconciling(r.op)

(* The answer is recorded only if the operation is still waiting for it; a *)
(* failed save leaves it reconciling for the next boot.                    *)
ReconcileRecord ==
    LET i == recon.op
        r == [mem[i] EXCEPT !.rec = recon.answer]
    IN  /\ recon # None
        /\ recon' = None
        /\ IF Recordable(recon)
           THEN \/ SaveOK(i, r) /\ mem' = [mem EXCEPT ![i] = r] /\ recordErr' = FALSE
                \/ SaveFails(i, r) /\ recordErr' = TRUE /\ UNCHANGED mem
           ELSE UNCHANGED <<mem, disk, recordErr, faults>>
        /\ UNCHANGED <<phase, attr, index, admissionSeq, client, execVars, cancelVars,
                       pending, sweeping, targetVars, histVars, clock, crashes>>

(* Shutdown cancels the loop: a read cut short is not an answer, and what  *)
(* is still pending stays reconciling for the next boot.                   *)
ReconcileAbandon ==
    /\ phase = "closing"
    /\ recon # None \/ pending # {}
    /\ recon' = None
    /\ pending' = {}
    /\ UNCHANGED <<phase, recordVars, client, execVars, cancelVars, sweeping,
                   targetVars, histVars, boundVars>>

ReconcileJoined == recon = None /\ pending = {}

-----------------------------------------------------------------------------
(* Shutdown, crash and restart                                             *)

(* Shutdown seals admission, joins the reconcile loop, waits for the       *)
(* runners and after its deadline force-cancels what is still live, one    *)
(* cancel() after the other outside the mutex (FireCancel).                *)
Seal ==
    /\ phase = "up"
    /\ crashes < MaxCrashes
    /\ phase' = "closing"
    /\ UNCHANGED <<recordVars, client, execVars, cancelVars, reconVars, sweeping,
                   targetVars, histVars, boundVars>>

ForceCancel ==
    /\ phase = "closing"
    /\ ReconcileJoined
    /\ phase' = "forced"
    /\ cancelling' = cancelling \cup {i \in OpIds : Live(i)}
    /\ UNCHANGED <<recordVars, client, execVars, ctxDone, reconVars, sweeping,
                   targetVars, histVars, boundVars>>

Drained == \A w \in Workers : worker[w] = Idle

LoseMemory ==
    /\ phase' = "down"
    /\ crashes' = crashes + 1
    /\ mem' = [i \in OpIds |-> Absence]
    /\ index' = [ns \in Namespaces |-> None]
    /\ client' = [c \in Clients |-> None]
    /\ runner' = [t \in Targets |-> [queue |-> << >>, busy |-> FALSE]]
    /\ worker' = [w \in Workers |-> Idle]
    /\ ctxDone' = {} /\ cancelling' = {} /\ pending' = {} /\ sweeping' = {}
    /\ recon' = None
    /\ recordErr' = FALSE
    /\ admissionSeq' = 0
    /\ UNCHANGED <<attr, disk, targetVars, histVars, clock, faults>>

(* The process ends after the drain, or after the forced phase's grace.    *)
MayExit ==
    \/ phase = "closing" /\ Drained /\ ReconcileJoined
    \/ phase = "forced"

Exit == MayExit /\ LoseMemory

Crash ==
    /\ phase # "down"
    /\ crashes < MaxCrashes
    /\ LoseMemory

(* recover: nothing is replayed.                                           *)
Recovered(r) ==
    CASE r.st \in {"queued", "running", "stopping"} ->
            [st |-> "interrupted",
             rec |-> IF HasReceiptReader THEN "reconciling" ELSE "manual"]
      [] r.st = "cancel_requested" -> [r EXCEPT !.st = "canceled"]
      [] OTHER -> r

NeedsRecovery == {i \in OpIds : Recovered(disk[i]) # disk[i]}

(* Mutant: only finished operations keep their key.                        *)
RestoredSucceeded(ns, loaded) ==
    LET held == {i \in loaded : KeyOf(i) = ns /\ disk[i].st = "succeeded"}
    IN  IF held = {} THEN {None} ELSE held

(* The index New rebuilds from the loaded records: records that share a    *)
(* key restore in map order, so any of them may win.                       *)
Restored(ns, loaded) ==
    LET held == {i \in loaded : KeyOf(i) = ns /\ InWindow(attr[i].created)}
    IN  IF held = {} THEN {None} ELSE held

(* New: sweep, load, rebuild the index, recover, start the reconcile loop. *)
Restart ==
    /\ phase = "down"
    /\ phase' = "up"
    /\ \E V \in SUBSET OpIds :
          /\ IsSweep(V)
          /\ disk' = [i \in OpIds |-> IF i \in V THEN Absence ELSE Recovered(disk[i])]
          /\ \E n \in {0} \cup {attr[i].seq : i \in Records \ V} :
                /\ \A i \in Records \ V : attr[i].seq <= n
                /\ admissionSeq' = n
          /\ \E f \in [Namespaces -> OpIds \cup {None}] :
                /\ \A ns \in Namespaces : f[ns] \in Restored(ns, Records \ V)
                /\ index' = f
    /\ mem' = disk'
    /\ pending' = {i \in OpIds : /\ HasReceiptReader
                                 /\ disk'[i].st = "interrupted"
                                 /\ disk'[i].rec = "reconciling"}
    /\ UNCHANGED <<attr, recordErr, client, execVars, cancelVars, recon, sweeping,
                   targetVars, histVars, boundVars>>

(* A record that cannot be saved aborts New: the records saved before it   *)
(* are recovered on disk and the service stays down.                       *)
RestartFails ==
    /\ phase = "down"
    /\ faults < MaxFaults
    /\ faults' = faults + 1
    /\ NeedsRecovery # {}
    /\ \E V \in SUBSET OpIds, S \in SUBSET NeedsRecovery :
          /\ IsSweep(V)
          /\ disk' = [i \in OpIds |-> CASE i \in V -> Absence
                                        [] i \in S \ V -> Recovered(disk[i])
                                        [] OTHER -> disk[i]]
    /\ UNCHANGED <<phase, attr, mem, index, admissionSeq, recordErr, client, execVars,
                   cancelVars, reconVars, sweeping, targetVars, histVars, clock, crashes>>

Tick ==
    /\ clock < MaxTime
    /\ clock' = clock + 1
    /\ UNCHANGED <<phase, recordVars, client, execVars, cancelVars, reconVars, sweeping,
                   targetVars, histVars, faults, crashes>>

-----------------------------------------------------------------------------
Init ==
    /\ phase = "up"
    /\ attr = [i \in OpIds |-> None]
    /\ mem = [i \in OpIds |-> Absence]
    /\ disk = [i \in OpIds |-> Absence]
    /\ index = [ns \in Namespaces |-> None]
    /\ client = [c \in Clients |-> None]
    /\ runner = [t \in Targets |-> [queue |-> << >>, busy |-> FALSE]]
    /\ worker = [w \in Workers |-> Idle]
    /\ ctxDone = {} /\ cancelling = {} /\ pending = {} /\ sweeping = {}
    /\ recon = None
    /\ recordErr = FALSE
    /\ admissionSeq = 0
    /\ installed = [t \in Targets |-> Absent]
    /\ landed = {}
    /\ starts = [i \in OpIds |-> 0]
    /\ acked = {} /\ cancelAcked = {}
    /\ clock = 0 /\ faults = 0 /\ crashes = 0

WorkerStep(w) ==
    \/ Pop(w) \/ Drain(w) \/ CheckContext(w) \/ AcquireSlot(w) \/ CheckTarget(w)
    \/ SetRunning(w) \/ FailUnsaved(w) \/ ExecReturn(w) \/ AfterExec(w)
    \/ FinishDecided(w) \/ ReadReceipt(w) \/ FinishCanceled(w)

Next ==
    \/ \E c \in Clients, r \in Requests, p \in Principals, k \in Keys \cup {None} :
          Enqueue(c, [req |-> r, principal |-> p, key |-> k, retryOf |-> None])
    \/ \E c \in Clients, i \in OpIds, p \in Principals : Retry(c, i, p)
    \/ \E c \in Clients : Refuse(c)
    \/ \E c \in Clients, i \in OpIds : Admit(c, i)
    \/ \E w \in Workers : WorkerStep(w) \/ EffectLands(w)
    \/ \E i \in OpIds : Cancel(i) \/ FireCancel(i) \/ ReconcileRead(i)
    \/ ReconcileRecord \/ ReconcileAbandon
    \/ Sweep \/ Retire
    \/ Seal \/ ForceCancel \/ Exit \/ Crash \/ Restart \/ RestartFails
    \/ Tick

Spec == Init /\ [][Next]_vars

ReconcileStep == ReconcileRecord \/ ReconcileAbandon \/ \E i \in OpIds : ReconcileRead(i)

(* The scheduling the rest of the code relies on: a runnable goroutine     *)
(* runs, a command returns within Command.Timeout, a receipt read within   *)
(* receiptReadTimeout, a blocked channel send is served, the deadline and  *)
(* the grace of a shutdown expire, and a stopped process is started again  *)
(* by its supervisor.                                                      *)
Fairness ==
    /\ \A w \in Workers : WF_vars(WorkerStep(w)) /\ SF_vars(AcquireSlot(w))
    /\ \A i \in OpIds : WF_vars(FireCancel(i))
    /\ WF_vars(ReconcileStep)
    /\ WF_vars(ForceCancel) /\ WF_vars(Exit) /\ WF_vars(Restart)

FairSpec == Spec /\ Fairness

-----------------------------------------------------------------------------
(* Properties                                                              *)

Pc  == {"idle", "loop", "popped", "slot", "check", "start", "unsaved", "exec",
        "returned", "decided", "receipt", "answered"}
Out == {None, "succeeded", "failed"} \cup ReconcileState

WorkerState == [pc: Pc, target: Targets \cup {None}, op: OpIds \cup {None}, out: Out]

(* Every variable holds a value of the kind the manager gives it.          *)
TypeOK ==
    /\ phase \in {"down", "up", "closing", "forced"}
    /\ attr \in [OpIds -> Attr \cup {None}]
    /\ mem \in [OpIds -> Record \cup {Absence}]
    /\ disk \in [OpIds -> Record \cup {Absence}]
    /\ index \in [Namespaces -> OpIds \cup {None}]
    /\ client \in [Clients -> Call \cup {None}]
    /\ runner \in [Targets -> [queue: Seq(OpIds), busy: BOOLEAN]]
    /\ worker \in [Workers -> WorkerState]
    /\ ctxDone \subseteq OpIds /\ cancelling \subseteq OpIds
    /\ pending \subseteq OpIds /\ sweeping \subseteq OpIds
    /\ recon \in [op: OpIds, answer: ReconcileState] \cup {None}
    /\ recordErr \in BOOLEAN
    /\ admissionSeq \in Nat
    /\ installed \in [Targets -> Images \cup {Absent, None}]
    /\ landed \subseteq OpIds
    /\ starts \in [OpIds -> Nat]
    /\ acked \subseteq OpIds /\ cancelAcked \subseteq OpIds
    /\ clock \in Nat /\ faults \in Nat /\ crashes \in Nat

(* A command is handed to the executor at most once per operation, across  *)
(* cancels, failed saves, crashes and restarts (recover replays nothing).  *)
NoSecondStart == \A i \in OpIds : starts[i] <= 1

(* An operation whose enqueue reported an error never executes, although   *)
(* its record may be visible on disk and be loaded by the next boot (A08). *)
OnlyAckedStart == \A i \in OpIds : starts[i] > 0 => i \in acked

(* A cancel acknowledged while the operation was queued is honoured even   *)
(* when the worker has already passed its context check (A09).             *)
CancelBeforeStartHonored == \A i \in cancelAcked : starts[i] = 0

(* admitToTarget and the exit of runTarget never leave two goroutines on   *)
(* one target.                                                             *)
OneRunnerPerTarget ==
    \A v, w \in Workers :
        v # w /\ worker[v] # Idle => worker[v].target # worker[w].target

InQueue(i) ==
    \E t \in Targets : \E n \in DOMAIN runner[t].queue : runner[t].queue[n] = i
Held(i) == \E w \in Workers : worker[w].op = i

(* No admitted operation is stranded: while the process is up an operation *)
(* is live exactly when a queue with a running goroutine, or a goroutine   *)
(* itself, holds it.                                                       *)
LiveIsOwned ==
    /\ phase # "down" => \A i \in OpIds : Live(i) <=> InQueue(i) \/ Held(i)
    /\ \A t \in Targets : runner[t].queue # << >> => \E w \in Workers : worker[w].target = t

(* The admission budgets bound what is live, whatever callers race between *)
(* the two critical sections of enqueue (A12, R17).                        *)
BudgetsHold ==
    /\ MaxLive > 0 => LiveCount <= MaxLive
    /\ MaxQueuedPerTarget > 0 => \A t \in Targets : Depth(t) <= MaxQueuedPerTarget
    /\ MaxLivePerPrincipal > 0 => \A p \in Principals : LiveOf(p) <= MaxLivePerPrincipal

(* "canceled; receipt confirmed the effect did not land" is true: the      *)
(* worker keeps its target until the receipt is read, so no later          *)
(* operation can hide the effect (D02).                                    *)
CanceledReceiptHonest ==
    \A i \in OpIds : mem[i].st = "canceled" /\ mem[i].rec = "not_applied" => i \notin landed

(* A recorded outcome is final: it is never rewritten in memory or on      *)
(* disk, by a late cancel, a racing finish, a reconciliation or a restart. *)
OutcomeFinal ==
    [][\A i \in OpIds :
         /\ mem[i].st \in TerminalStatus => mem'[i].st \in {mem[i].st, "none"}
         /\ disk[i].st \in TerminalStatus => disk'[i].st \in {disk[i].st, "none"}]_<<mem, disk>>

(* With storage that works, memory never runs ahead of the record files:   *)
(* what any caller can observe survives a crash at that point.             *)
WriteThrough ==
    phase # "down" /\ faults = 0 /\ MaxOperations < 1 /\ MaxHistoryAge < 1 => mem = disk

(* With storage that works, an orderly shutdown leaves nothing for         *)
(* recovery: when its drain sees no worker, every record file is terminal. *)
DrainedIsSettled ==
    phase = "closing" /\ Drained /\ faults = 0 =>
        \A i \in OpIds : disk[i].st \in TerminalStatus \cup {"none"}

(* An operation that is still live has a record a restart would recover,   *)
(* although the sweep reads and deletes record files without the mutex.    *)
LiveIsRecoverable ==
    \A i \in OpIds : Live(i) => disk[i].st \notin TerminalStatus \cup {"none"}

(* Both: the record files are what the next process goes on from, after a  *)
(* drained shutdown and after a crash (Shutdown, sweepRetention).          *)
RecordsHold == DrainedIsSettled /\ LiveIsRecoverable

(* A keyed operation that memory still holds and that is within its window *)
(* can be found by its key: a replay resolves against an operation of that *)
(* key and principal instead of admitting new work (D02).                  *)
ReplayResolves ==
    \A i \in OpIds :
        Exists(i) /\ i \in acked /\ attr[i].key # None /\ InWindow(attr[i].created) =>
            /\ index[KeyOf(i)] # None
            /\ KeyOf(index[KeyOf(i)]) = KeyOf(i)

(* Two operations of one key and principal are both executed only when the *)
(* window lies between their admissions, whatever callers race through     *)
(* Build and whatever crashes in between (R21).                            *)
OneStartPerKey ==
    \A i, j \in OpIds :
        /\ i # j /\ starts[i] > 0 /\ starts[j] > 0
        /\ attr[i].key # None /\ KeyOf(i) = KeyOf(j)
        /\ attr[i].created <= attr[j].created
        => IdempotencyWindow > 0 /\ attr[j].created - attr[i].created > IdempotencyWindow

(* What enqueue found in its first critical section still holds in the     *)
(* second, after Build ran without the mutex: nobody took the key, nobody  *)
(* took the last place of a budget.                                        *)
RecheckHolds == OneStartPerKey /\ BudgetsHold

(* Every admitted operation reaches a terminal state, or is lost to a      *)
(* process end (and then recovered as terminal).                           *)
LiveEventuallySettles == \A i \in OpIds : Live(i) ~> ~Live(i)

(* With storage that works, an interrupted outcome does not stay           *)
(* "reconciling" for good: retry is offered again.                         *)
ReconciliationEnds == \A i \in OpIds : Reconciling(i) ~> ~Reconciling(i)

(* types.go, ReconcileStateNotApplied: the effect did not land.            *)
NotAppliedIsHonest ==
    \A i \in OpIds : mem[i].rec = "not_applied" => i \notin landed
=============================================================================
