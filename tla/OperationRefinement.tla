------------------------- MODULE OperationRefinement -------------------------
(* OperationManager implements OperationContract.                          *)
EXTENDS OperationInvariant

(* An id's life: an id whose enqueue failed is refused although its record *)
(* may be visible on disk, an acknowledged one is settled when it is no    *)
(* longer live, which a process end makes of everything.                   *)
LifeOf(i) ==
    CASE attr[i] = None                                  -> "new"
      [] attr[i] # None /\ i \notin acked                -> "refused"
      [] i \in acked /\ mem[i].st \in Status \ TerminalStatus /\ starts[i] = 0 -> "admitted"
      [] i \in acked /\ mem[i].st \in Status \ TerminalStatus /\ starts[i] # 0 -> "started"
      [] OTHER                                           -> "settled"

Holders(t) == {w \in Workers : worker[w].target = t /\ worker[w].op # None}

(* What a target still owes: the job its goroutine holds, then its queue.  *)
Owed(t) ==
    IF Holders(t) = {} THEN runner[t].queue
    ELSE <<worker[CHOOSE w \in Holders(t) : TRUE].op>> \o runner[t].queue

C == INSTANCE OperationContract
        WITH life <- [i \in OpIds |-> LifeOf(i)], queue <- [t \in Targets |-> Owed(t)]

(* The durable manager keeps the contract through races of its two-phase   *)
(* admission, cancels, failed saves, crashes, restarts and retention.      *)
Contract == C!CSpec
=============================================================================
