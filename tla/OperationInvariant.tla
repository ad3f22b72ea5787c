------------------------- MODULE OperationInvariant -------------------------
(* The inductive invariant behind the safety of OperationManager.          *)
EXTENDS OperationManager

Waiting == {"queued", "cancel_requested"}

BeforeStart == {"popped", "slot", "check", "start"}
AfterStart  == {"exec", "returned", "decided", "receipt", "answered"}

(* What a goroutine holds at each point of runTarget and execute.          *)
WorkersWellFormed ==
    \A w \in Workers :
        LET k == worker[w]
        IN  /\ k.pc = "idle" => k = Idle
            /\ k.pc # "idle" => k.target \in Targets
            /\ k.pc \in {"idle", "loop"} <=> k.op = None
            /\ k.pc \in {"returned", "decided"} => k.out \in {"succeeded", "failed"}
            /\ k.pc = "answered" => k.out \in ReconcileState

(* Only ids that were generated appear anywhere.                           *)
KnownIds ==
    \A i \in OpIds : Fresh(i) =>
        /\ ~Exists(i) /\ disk[i].st = "none"
        /\ starts[i] = 0 /\ i \notin acked /\ i \notin cancelAcked
        /\ i \notin pending /\ \A w \in Workers : worker[w].op # i
        /\ recon # None => recon.op # i

(* The queue and busy flag of a target against its goroutines.             *)
RunnersWellFormed ==
    \A t \in Targets :
        /\ runner[t].busy <=> \E w \in Workers : worker[w].target = t
        /\ runner[t].queue # << >> => runner[t].busy
        /\ \A v, w \in Workers :
              worker[v].target = t /\ worker[w].target = t => v = w

(* A queued job waits for its first start, and nothing else holds it.      *)
QueuesWellFormed ==
    \A t \in Targets : \A n \in DOMAIN runner[t].queue :
        LET i == runner[t].queue[n]
        IN  /\ ~Fresh(i) /\ TargetOf(i) = t
            /\ mem[i].st \in Waiting /\ starts[i] = 0 /\ i \in acked
            /\ \A m \in DOMAIN runner[t].queue : runner[t].queue[m] = i => m = n
            /\ \A w \in Workers : worker[w].op # i

(* The status and the start count of what a goroutine holds.               *)
HeldWellFormed ==
    \A w \in Workers :
        LET k == worker[w]
        IN  k.op # None =>
              /\ ~Fresh(k.op) /\ TargetOf(k.op) = k.target /\ Live(k.op)
              /\ k.op \in acked
              /\ k.pc \in BeforeStart => mem[k.op].st \in Waiting /\ starts[k.op] = 0
              /\ k.pc = "unsaved" => starts[k.op] = 0 /\ mem[k.op].st # "queued"
              /\ k.pc \in AfterStart => mem[k.op].st # "queued"

(* Nothing is live unless a queue or a goroutine holds it, and a process   *)
(* that is down holds nothing.                                             *)
NothingStranded ==
    /\ \A i \in OpIds : Live(i) => InQueue(i) \/ Held(i)
    /\ phase = "down" => \A i \in OpIds : ~Exists(i)
    /\ phase = "down" => \A w \in Workers : worker[w] = Idle

(* The three history facts that follow.                                    *)
HistoryOK ==
    /\ NoSecondStart /\ OnlyAckedStart /\ CancelBeforeStartHonored
    /\ \A i \in cancelAcked : mem[i].st # "queued"

(* Checked by TLC, proved inductive in OperationManager_proofs.            *)
IInv ==
    /\ WorkersWellFormed /\ KnownIds /\ RunnersWellFormed /\ QueuesWellFormed
    /\ HeldWellFormed /\ NothingStranded /\ HistoryOK
-----------------------------------------------------------------------------
(* The records in memory against the record files.                         *)

Unsettled(st) == st \in Status \ TerminalStatus

NotApplied(r) == r.st = "canceled" /\ r.rec = "not_applied"

RetentionOff == MaxOperations < 1 /\ MaxHistoryAge < 1

(* A settled file is not contradicted by memory, an unsettled operation    *)
(* has an unsettled file, and neither says anything of a receipt.          *)
FilesFollow ==
    \A i \in OpIds :
        /\ disk[i].st \in TerminalStatus => mem[i].st \in {disk[i].st, "none"}
        /\ Live(i) => Unsettled(disk[i].st) /\ mem[i].rec = "nil"
        /\ Unsettled(disk[i].st) => disk[i].rec = "nil"

(* While no save has failed, an unsettled file belongs to a live operation,*)
(* and without retention the files are what memory holds.                  *)
FilesAgree ==
    /\ faults = 0 /\ phase # "down" => \A i \in OpIds : Unsettled(disk[i].st) => Live(i)
    /\ RetentionOff => sweeping = {}
    /\ RetentionOff /\ faults = 0 /\ phase # "down" => mem = disk

(* What the command of a held operation did is still what its target runs, *)
(* because no other goroutine serves the target.                           *)
EffectsStand ==
    \A w \in Workers :
        LET k == worker[w]
        IN  /\ k.pc \in AfterStart => starts[k.op] > 0
            /\ k.pc \in AfterStart \ {"answered"} /\ k.op \in landed =>
                 installed[k.target] = EffectOf(attr[k.op].req, installed[k.target])
            /\ k.pc = "answered" /\ k.out = "not_applied" => k.op \notin landed

(* Only a command that was started has an effect, and a receipt that says  *)
(* the effect is missing is right.                                         *)
ReceiptsHonest ==
    /\ \A i \in landed : starts[i] > 0
    /\ \A i \in OpIds : NotApplied(mem[i]) \/ NotApplied(disk[i]) => i \notin landed

(* Proved inductive in OperationRecords_proofs.                            *)
RInv == FilesFollow /\ FilesAgree /\ EffectsStand /\ ReceiptsHonest

=============================================================================
