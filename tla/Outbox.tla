------------------------------- MODULE Outbox -------------------------------
(***************************************************************************)
(* The durable alert queue of teploy-dash (internal/outbox).  Alerts are   *)
(* records with one leg per channel; a single worker sends what is due,    *)
(* retries failed legs up to MaxAttempts rounds, and every change of a     *)
(* record is a line appended to a journal whose last line per id is the    *)
(* record a restart loads.                                                 *)
(*                                                                         *)
(* A change and its journal line are two critical sections of the outbox   *)
(* mutex, and requests to receivers are made outside it, so each is an     *)
(* action of its own.  The configuration is read at every use and may have *)
(* changed, or be unreadable, each time: it is an input.  Backoff and      *)
(* Retry-After are abstracted: a record that failed may or may not be due  *)
(* when the worker scans.                                                  *)
(***************************************************************************)
EXTENDS AlertEvents, Filtering

CONSTANTS
    Alerts,        \* delivery ids
    MaxAttempts,   \* rounds before a record dead-letters
    MaxRetained    \* records kept by a compaction

ASSUME OutboxConstants ==
    /\ None \notin Alerts
    /\ MaxAttempts \in Nat \ {0} /\ MaxRetained \in Nat \ {0}

VARIABLES
    event,    \* history: the alert handed over under each id, None if none was
    rec,      \* record objects
    order,    \* the ids in o.records, in order of insertion
    jlast,    \* journal: the last line of each id
    jorder,   \* journal: the ids in order of their first line
    sender,   \* the caller of Send: lines it still has to append
    worker,   \* the delivery goroutine
    sends     \* external: requests made per channel and alert

recordVars  == <<event, rec, order>>
journalVars == <<jlast, jorder>>
outboxVars  == <<recordVars, journalVars, sender, worker, sends>>

-----------------------------------------------------------------------------
RecordStatus == {"none", "pending", "delivered", "dead_lettered", "suppressed",
                 "superseded"}
LegStatus == {"none", "pending", "delivered", "dead_lettered"}

NoLegs   == [c \in Channels |-> "none"]
NoRecord == [status |-> "none", attempts |-> 0, legs |-> NoLegs]
Record   == [status: RecordStatus, attempts: 0..MaxAttempts, legs: [Channels -> LegStatus]]

Known(a)   == a \in ToSet(order)
Pending(a) == Known(a) /\ rec[a].status = "pending"

-----------------------------------------------------------------------------
(* The journal                                                             *)

AppendLine(a, r) ==
    /\ jlast' = [jlast EXCEPT ![a] = r]
    /\ jorder' = IF a \in ToSet(jorder) THEN jorder ELSE Append(jorder, a)

(* Mutant: retention drops the oldest records, whatever their status.      *)
DroppedByAge ==
    {order[n] : n \in 1..(Len(order) - MaxRetained)}

(* compactLocked drops the oldest records beyond MaxRetained, but never a  *)
(* pending one.                                                            *)
Dropped ==
    LET settled == {n \in DOMAIN order : rec[order[n]].status # "pending"}
    IN  {order[n] : n \in {m \in settled :
            Cardinality({k \in settled : k <= m}) <= Len(order) - MaxRetained}}

Kept == Filtered(order, Alerts \ Dropped)

(* The rewritten journal holds what memory holds.                          *)
Compact ==
    /\ order' = Kept
    /\ jorder' = Kept
    /\ jlast' = [a \in Alerts |-> IF a \in ToSet(Kept) THEN rec[a] ELSE NoRecord]

(* persist: append one line, compact when too many records are retained.   *)
(* A failing append may leave the line or not; a failing compaction has    *)
(* already dropped the records from memory, and its rename may be visible. *)
Persist(a, r) ==
    IF Len(order) <= MaxRetained
    THEN /\ UNCHANGED order
         /\ \/ AppendLine(a, r) /\ UNCHANGED faults
            \/ faults < MaxFaults /\ faults' = faults + 1
               /\ (AppendLine(a, r) \/ UNCHANGED journalVars)
    ELSE \/ Compact /\ UNCHANGED faults
         \/ /\ faults < MaxFaults /\ faults' = faults + 1
            /\ \/ UNCHANGED <<order, journalVars>>
               \/ AppendLine(a, r) /\ order' \in {order, Kept}
               \/ Compact

-----------------------------------------------------------------------------
(* Send and RecordSuppressed                                               *)

NoSend == [new |-> None, sup |-> {}]

(* Mutant: a recovery leaves the opening it overtakes in the queue.        *)
SupersedesNothing(e, b) == FALSE

(* A recovery supersedes what is still pending of its incident.            *)
Supersedes(e, b) ==
    /\ e.kind = "recovered"
    /\ Pending(b)
    /\ event[b].inc = e.inc
    /\ event[b].kind \in {"opened", "repeat"}

(* Send's critical section: the record and what it supersedes.             *)
Enqueue(a, e) ==
    LET sup == {b \in Alerts : Supersedes(e, b)}
    IN  /\ rec' = [b \in Alerts |->
                     CASE b = a     -> [NoRecord EXCEPT !.status = "pending"]
                       [] b \in sup -> [rec[b] EXCEPT !.status = "superseded"]
                       [] OTHER     -> rec[b]]
        /\ order' = Append(order, a)
        /\ sender' = [new |-> a, sup |-> sup]

(* Send: nothing is queued when a readable configuration routes the event  *)
(* nowhere; an unreadable one still queues.                                *)
Send(a, e) ==
    /\ sender = NoSend
    /\ event[a] = None
    /\ event' = [event EXCEPT ![a] = e]
    /\ Enqueue(a, e) \/ UNCHANGED <<rec, order, sender>>
    /\ UNCHANGED <<journalVars, worker, sends, faults>>

(* RecordSuppressed: a terminal record that is never sent.                 *)
RecordSuppressed(a, e) ==
    /\ sender = NoSend
    /\ event[a] = None
    /\ event' = [event EXCEPT ![a] = e]
    /\ rec' = [rec EXCEPT ![a] = [NoRecord EXCEPT !.status = "suppressed"]]
    /\ order' = Append(order, a)
    /\ sender' = [new |-> a, sup |-> {}]
    /\ UNCHANGED <<journalVars, worker, sends, faults>>

(* Send appends the superseded records in any order, then the new one.     *)
PersistSuperseded(b) ==
    /\ b \in sender.sup
    /\ Persist(b, rec[b])
    /\ sender' = [sender EXCEPT !.sup = @ \ {b}]
    /\ UNCHANGED <<event, rec, worker, sends>>

PersistNew ==
    /\ sender.new # None /\ sender.sup = {}
    /\ Persist(sender.new, rec[sender.new])
    /\ sender' = NoSend
    /\ UNCHANGED <<event, rec, worker, sends>>

-----------------------------------------------------------------------------
(* The worker                                                              *)

Resting == [pc |-> "idle", batch |-> << >>, route |-> {}, todo |-> {},
            verdict |-> [c \in Channels |-> "none"], err |-> FALSE, snap |-> NoRecord]

Current == Head(worker.batch)

(* The next record of the batch, or the next tick.                         *)
NextOf(batch) == IF batch = << >> THEN Resting
                 ELSE [Resting EXCEPT !.pc = "next", !.batch = batch]

(* deliverDue: what is pending and due, oldest first.  A record that was   *)
(* never tried is due, a retried one when its backoff has passed.          *)
DeliverDue ==
    /\ worker.pc = "idle"
    /\ \E late \in SUBSET {a \in Alerts : Pending(a) /\ rec[a].attempts > 0} :
         LET due == Filtered(order, {a \in Alerts :
                        Pending(a) /\ (rec[a].attempts = 0 \/ a \in late)})
         IN  /\ due # << >>
             /\ worker' = NextOf(due)
    /\ UNCHANGED <<recordVars, journalVars, sender, sends, faults>>

(* Mutant: every configured leg is sent again on a retry.                  *)
OwedAll(a, c) == TRUE

Owed(a, c) == rec[a].legs[c] # "delivered"

(* attempt: the configuration is read again, legs that acknowledged are    *)
(* skipped.  The record itself is not looked at again before it is sent.   *)
BeginAttempt(configured) ==
    LET route == ChannelsFor(configured, event[Current])
    IN  /\ worker.pc = "next"
        /\ worker' = [worker EXCEPT !.pc = "send", !.route = route,
                                    !.todo = {c \in route : Owed(Current, c)}]
        /\ UNCHANGED <<recordVars, journalVars, sender, sends, faults>>

(* A configuration that cannot be read fails the round.                    *)
BeginUnreadable ==
    /\ worker.pc = "next"
    /\ worker' = [worker EXCEPT !.pc = "send", !.err = TRUE]
    /\ UNCHANGED <<recordVars, journalVars, sender, sends, faults>>

SendLeg(c) ==
    /\ worker.pc = "send" /\ c \in worker.todo
    /\ sends' = [sends EXCEPT ![c][Current] = @ + 1]
    /\ \E v \in {"acked", "failed"} :
          worker' = [worker EXCEPT !.todo = @ \ {c}, !.verdict[c] = v]
    /\ UNCHANGED <<recordVars, journalVars, sender, faults>>

(* Mutant: the last round does not count.                                  *)
ExhaustedLate(n) == n > MaxAttempts

Exhausted(n) == n >= MaxAttempts

(* The verdicts of a round applied to the record as it is now.             *)
Outcome(r) ==
    LET legs == [c \in Channels |-> CASE worker.verdict[c] = "acked"  -> "delivered"
                                      [] worker.verdict[c] = "failed" -> "pending"
                                      [] OTHER                        -> r.legs[c]]
        told == ~worker.err /\ \A c \in worker.route : legs[c] = "delivered"
        n    == r.attempts + 1
    IN  [attempts |-> n,
         status |-> CASE told -> "delivered"
                      [] ~told /\ Exhausted(n) -> "dead_lettered"
                      [] OTHER -> "pending",
         legs |-> IF ~told /\ Exhausted(n)
                  THEN [c \in Channels |-> IF legs[c] = "pending" THEN "dead_lettered"
                                           ELSE legs[c]]
                  ELSE legs]

(* The closing section of attempt: a record that turned terminal while it  *)
(* was being sent stays as it is.                                          *)
Conclude ==
    LET a == Current
    IN  /\ worker.pc = "send" /\ worker.todo = {}
        /\ IF Pending(a)
           THEN /\ rec' = [rec EXCEPT ![a] = Outcome(rec[a])]
                /\ worker' = [Resting EXCEPT !.pc = "persist", !.batch = worker.batch,
                                             !.snap = Outcome(rec[a])]
           ELSE worker' = NextOf(Tail(worker.batch)) /\ UNCHANGED rec
        /\ UNCHANGED <<event, order, journalVars, sender, sends, faults>>

(* The outcome is appended after the lock was released.                    *)
PersistOutcome ==
    /\ worker.pc = "persist"
    /\ Persist(Current, worker.snap)
    /\ worker' = NextOf(Tail(worker.batch))
    /\ UNCHANGED <<event, rec, sender, sends>>

WorkerStep ==
    \/ DeliverDue \/ BeginUnreadable \/ Conclude \/ PersistOutcome
    \/ \E configured \in SUBSET Channels : BeginAttempt(configured)
    \/ \E c \in Channels : SendLeg(c)

-----------------------------------------------------------------------------
(* load: the last line of every id, in order of the first lines.           *)
Load ==
    /\ rec' = jlast
    /\ order' = jorder
    /\ sender' = NoSend
    /\ worker' = Resting
    /\ UNCHANGED <<event, journalVars, sends>>

OutboxInit ==
    /\ event = [a \in Alerts |-> None]
    /\ rec = [a \in Alerts |-> NoRecord]
    /\ order = << >>
    /\ jlast = [a \in Alerts |-> NoRecord]
    /\ jorder = << >>
    /\ sender = NoSend
    /\ worker = Resting
    /\ sends = [c \in Channels |-> [a \in Alerts |-> 0]]
=============================================================================
