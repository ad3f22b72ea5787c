--------------------------- MODULE Alerting_proofs ---------------------------
(***************************************************************************)
(* Proofs about the incident tracker and the alert outbox: what the queue  *)
(* and its journal keep, which requests are made again, and in which order *)
(* receivers are told of an incident.                                      *)
(***************************************************************************)
EXTENDS Alerting, Filtering_proofs

-----------------------------------------------------------------------------
(* The inductive invariant: the queue and its journal                      *)

(* A record is given up before it counts more than MaxAttempts rounds.     *)
Retried(r) == r.status = "pending" => r.attempts < MaxAttempts

WorkerInOrder ==
    /\ worker.pc # "idle" => worker.batch # << >>
    /\ worker.pc \in {"idle", "next"} =>
          worker.todo = {} /\ \A c \in Channels : worker.verdict[c] = "none"
    /\ Retried(worker.snap)

AllRetried == \A a \in Alerts : Retried(rec[a]) /\ Retried(jlast[a])

(* An id nothing was handed over under is nowhere.                         *)
UnusedIsNowhere ==
    \A a \in Alerts : event[a] = None =>
        /\ rec[a] = NoRecord /\ jlast[a] = NoRecord
        /\ a \notin ToSet(order) \cup ToSet(jorder) \cup ToSet(worker.batch)
        /\ a # sender.new /\ a \notin sender.sup

PendingIsKnown ==
    \A a \in Alerts : /\ rec[a].status = "pending" => a \in ToSet(order)
                      /\ jlast[a].status = "pending" => a \in ToSet(jorder)

(* The outcome the worker has yet to append is the record's, unless it was *)
(* superseded meanwhile.                                                   *)
SnapIsRecord ==
    worker.pc = "persist" =>
        /\ rec[Current].legs = worker.snap.legs
        /\ rec[Current].status = "pending" => worker.snap.status = "pending"

(* A leg the journal knows as delivered is so in memory, and the worker    *)
(* does not owe it.                                                        *)
AckedIsKnown ==
    \A a \in Alerts, c \in Channels :
        jlast[a].legs[c] = "delivered" => rec[a].legs[c] = "delivered"

TodoIsOwed ==
    worker.pc = "send" => \A c \in Channels :
        c \in worker.todo \/ worker.verdict[c] = "failed" => rec[Current].legs[c] # "delivered"

TrackerTypes ==
    /\ streak \in [Rules -> Streak] /\ held \subseteq Rules
    /\ incident \in [Rules -> Incident \cup {None}] /\ file \in [Rules -> Incident \cup {None}]
    /\ firstRun \in BOOLEAN /\ adopting \in BOOLEAN
    /\ out \in Seq([ev: Event, held: BOOLEAN])

OutboxTypes ==
    /\ event \in [Alerts -> Event \cup {None}]
    /\ rec \in [Alerts -> Record] /\ jlast \in [Alerts -> Record]
    /\ order \in Seq(Alerts) /\ jorder \in Seq(Alerts)
    /\ sender \in [new: Alerts \cup {None}, sup: SUBSET Alerts]
    /\ worker \in WorkerState
    /\ sends \in [Channels -> [Alerts -> Nat]]

QueueInv ==
    /\ faults \in Nat /\ OutboxTypes
    /\ WorkerInOrder /\ AllRetried /\ UnusedIsNowhere /\ PendingIsKnown
    /\ SnapIsRecord /\ AckedIsKnown /\ TodoIsOwed /\ PendingIsDurable

-----------------------------------------------------------------------------
(* The inductive invariant: what receivers are told                        *)

(* The alerts of the operation that were not handed over yet.              *)
Left == IF sender = NoSend THEN out ELSE Tail(out)

Opens(e) == e.kind = "opened" /\ e.inc # None
Leaves(kind, i) == \E n \in 1..Len(Left) : Left[n].ev.kind = kind /\ Left[n].ev.inc = i
ToldOpen(i) == \E r \in Rules : IsOpen(r) /\ incident[r].id = i /\ incident[r].notified

SenderHoldsHead == sender # NoSend => out # << >> /\ sender.new # None

OneId(table) ==
    \A r, q \in Rules : table[r] # None /\ table[q] # None /\ table[r].id = table[q].id => r = q

(* What is left to hand over tells of the incidents as they are.           *)
LeftIsTrue ==
    \A i \in Incs : /\ Leaves("opened", i) \/ Leaves("repeat", i) => ToldOpen(i)
                    /\ Leaves("recovered", i) => i \notin IdsOf(incident)

(* What is recorded but not sent, for a hold, is of no incident.           *)
HeldIsUnnamed == \A n \in 1..Len(Left) : Left[n].held => Left[n].ev.inc = None

(* Without a crash, receivers know the announced incidents and no others.  *)
ToldAsOpen ==
    crashes = 0 => \A i \in Incs :
        /\ ToldOpen(i) => Handed("opened", i) \/ Leaves("opened", i)
        /\ Handed("opened", i) => ToldOpen(i) \/ Handed("recovered", i) \/ Leaves("recovered", i)
        /\ Handed("recovered", i) \/ Leaves("recovered", i) => Handed("opened", i)
        /\ Handed("recovered", i) => i \notin IdsOf(incident)

(* With every write done, no incident is opened to its receivers twice.    *)
OpensOnce ==
    faults = 0 =>
        /\ file = incident
        /\ \A r \in Rules : IsOpen(r) /\ ~incident[r].notified => ~Handed("opened", incident[r].id)
        /\ \A i \in Incs : Leaves("opened", i) => ~Handed("opened", i)
        /\ \A m, n \in 1..Len(Left) :
              Opens(Left[m].ev) /\ Opens(Left[n].ev) /\ Left[m].ev.inc = Left[n].ev.inc => m = n

(* Of b's incident and before it.                                          *)
Overtaken(a, b) ==
    /\ event[a] # None /\ event[a].kind \in {"opened", "repeat"} /\ event[a].inc # None
    /\ event[b] # None /\ event[b].kind = "recovered" /\ event[b].inc = event[a].inc

SentOrNext(b) == b \in ToSet(worker.batch) \/ \E c \in Channels : sends[c][b] > 0

(* Without a crash, a queued recovery has superseded what is pending of its*)
(* incident, and is sent in no batch together with it.                     *)
RecoveryOvertakes ==
    crashes = 0 => \A a, b \in Alerts :
        /\ SentOrNext(b) => rec[b].status # "none"
        /\ Overtaken(a, b) => /\ rec[b].status # "none" => rec[a].status # "pending"
                              /\ SentOrNext(b) => a \notin ToSet(worker.batch)

ToldInv ==
    /\ SenderHoldsHead /\ OneId(incident) /\ OneId(file) /\ LeftIsTrue /\ HeldIsUnnamed
    /\ ToldAsOpen /\ OpensOnce /\ OneOpening /\ RecoveryOvertakes

AlertingInv == crashes \in Nat /\ TrackerTypes /\ QueueInv /\ ToldInv

-----------------------------------------------------------------------------
(* Lists                                                                   *)

LEMMA ListFacts ==
    ASSUME NEW S, NEW s \in Seq(S)
    PROVE  /\ ToSet(s) = Elements(s) /\ ToSet(s) \subseteq S
           /\ \A x \in S : Append(s, x) \in Seq(S) /\ ToSet(Append(s, x)) = ToSet(s) \cup {x}
           /\ s # << >> => /\ Head(s) \in ToSet(s) /\ Tail(s) \in Seq(S)
                           /\ ToSet(Tail(s)) \subseteq ToSet(s)
  <1>1. ToSet(s) = Elements(s) /\ ToSet(s) \subseteq S
    BY DEF ToSet, Elements
  <1>2. ASSUME NEW x \in S
        PROVE  Append(s, x) \in Seq(S) /\ ToSet(Append(s, x)) = ToSet(s) \cup {x}
    <2>1. 1..(Len(s) + 1) = 1..Len(s) \cup {Len(s) + 1}
      OBVIOUS
    <2> QED BY <2>1 DEF ToSet
  <1>3. ASSUME s # << >>
        PROVE  Head(s) \in ToSet(s) /\ Tail(s) \in Seq(S) /\ ToSet(Tail(s)) \subseteq ToSet(s)
    BY <1>3 DEF ToSet
  <1> QED BY <1>1, <1>2, <1>3

(* The elements of a list are the members of its set.                      *)
LEMMA ListMember ==
    ASSUME NEW S, NEW s \in Seq(S)
    PROVE  \A n \in 1..Len(s) : s[n] \in ToSet(s)
  BY DEF ToSet

(* A compaction keeps what is pending.                                     *)
LEMMA KeptHolds ==
    ASSUME order \in Seq(Alerts)
    PROVE  /\ Kept \in Seq(Alerts) /\ ToSet(Kept) \subseteq ToSet(order)
           /\ \A a \in ToSet(order) : rec[a].status = "pending" => a \in ToSet(Kept)
  <1>1. Kept \in Seq(Alerts) /\ ToSet(Kept) = ToSet(order) \cap (Alerts \ Dropped)
    BY FilteredHolds, ListFacts DEF Kept
  <1>2. \A a \in Dropped : rec[a].status # "pending"
    BY DEF Dropped
  <1>3. ToSet(order) \subseteq Alerts
    BY ListFacts
  <1> QED BY <1>1, <1>2, <1>3

-----------------------------------------------------------------------------
(* The journal                                                             *)

LEMMA NoRecordTyped == NoRecord \in Record /\ NoRecord.status = "none" /\ NoRecord.legs = NoLegs
  BY OutboxConstants DEF NoRecord, NoLegs, Record, RecordStatus, LegStatus

(* What appending one line may leave, with and without a fault.            *)
LEMMA PersistEffect ==
    ASSUME faults \in Nat, OutboxTypes, PendingIsKnown, NEW a \in Alerts, NEW r \in Record, Persist(a, r)
    PROVE  /\ order' \in Seq(Alerts) /\ ToSet(order') \subseteq ToSet(order)
           /\ \A b \in ToSet(order) : rec[b].status = "pending" => b \in ToSet(order')
           /\ jlast' \in [Alerts -> Record] /\ jorder' \in Seq(Alerts)
           /\ ToSet(jorder') \subseteq ToSet(jorder) \cup ToSet(order) \cup {a}
           /\ \A b \in Alerts : jlast'[b].status = "pending" => b \in ToSet(jorder')
           /\ \A b \in Alerts : \/ jlast'[b] = jlast[b]
                                \/ (b = a /\ jlast'[b] = r)
                                \/ (jlast'[b] = rec[b] /\ b \in ToSet(order))
                                \/ jlast'[b] = NoRecord
           /\ faults' \in Nat /\ faults' >= faults
           /\ faults' = 0 =>
                 \/ /\ jlast'[a] = r /\ a \in ToSet(jorder') /\ ToSet(jorder) \subseteq ToSet(jorder')
                    /\ \A b \in Alerts \ {a} : jlast'[b] = jlast[b]
                 \/ \A b \in ToSet(order) : rec[b].status = "pending" =>
                        jlast'[b] = rec[b] /\ b \in ToSet(jorder')
  <1>1. /\ order \in Seq(Alerts) /\ jorder \in Seq(Alerts) /\ faults \in Nat
        /\ rec \in [Alerts -> Record] /\ jlast \in [Alerts -> Record]
    BY DEF OutboxTypes
  <1>2. /\ Kept \in Seq(Alerts) /\ ToSet(Kept) \subseteq ToSet(order)
        /\ \A b \in ToSet(order) : rec[b].status = "pending" => b \in ToSet(Kept)
    BY <1>1, KeptHolds
  <1> HIDE DEF Kept
  <1>3. ASSUME AppendLine(a, r)
        PROVE  /\ jlast' \in [Alerts -> Record] /\ jorder' \in Seq(Alerts)
               /\ ToSet(jorder') = ToSet(jorder) \cup {a}
               /\ jlast'[a] = r /\ \A b \in Alerts \ {a} : jlast'[b] = jlast[b]
    <2>1. jlast' = [jlast EXCEPT ![a] = r]
          /\ jorder' = IF a \in ToSet(jorder) THEN jorder ELSE Append(jorder, a)
      BY <1>3 DEF AppendLine
    <2> QED BY <1>1, <2>1, ListFacts
  <1>4. ASSUME Compact
        PROVE  /\ order' = Kept /\ jorder' = Kept /\ jlast' \in [Alerts -> Record]
               /\ \A b \in Alerts : jlast'[b] = IF b \in ToSet(Kept) THEN rec[b] ELSE NoRecord
    BY <1>1, <1>4, NoRecordTyped DEF Compact
  <1>5. faults' \in Nat /\ faults' >= faults
    BY <1>1 DEF Persist
  <1>6. CASE AppendLine(a, r) /\ order' \in {order, Kept}
             /\ (faults' = 0 => order' = order)
    <2>1. /\ order' \in Seq(Alerts) /\ ToSet(order') \subseteq ToSet(order)
          /\ \A b \in ToSet(order) : rec[b].status = "pending" => b \in ToSet(order')
      BY <1>1, <1>2, <1>6
    <2>2. \A b \in Alerts : jlast'[b].status = "pending" => b \in ToSet(jorder')
      BY <1>3, <1>6 DEF PendingIsKnown
    <2> QED BY <1>3, <1>5, <1>6, <2>1, <2>2
  <1>7. CASE UNCHANGED <<order, journalVars>> /\ faults' # 0
    <2>1. order' = order /\ jlast' = jlast /\ jorder' = jorder
      BY <1>7 DEF journalVars
    <2> QED BY <1>1, <1>5, <1>7, <2>1 DEF PendingIsKnown
  <1>8. CASE Compact
    <2>1. \A b \in Alerts : jlast'[b].status = "pending" => b \in ToSet(jorder')
      BY <1>4, <1>8, NoRecordTyped
    <2>2. \A b \in Alerts : (jlast'[b] = rec[b] /\ b \in ToSet(order)) \/ jlast'[b] = NoRecord
      BY <1>2, <1>4, <1>8
    <2>3. ToSet(order) \subseteq Alerts
      BY <1>1, ListFacts
    <2>4. \A b \in ToSet(order) : rec[b].status = "pending" => jlast'[b] = rec[b] /\ b \in ToSet(jorder')
      BY <1>2, <1>4, <1>8, <2>3
    <2> QED BY <1>2, <1>4, <1>5, <1>8, <2>1, <2>2, <2>4
  <1>9. \/ AppendLine(a, r) /\ order' \in {order, Kept} /\ (faults' = 0 => order' = order)
        \/ UNCHANGED <<order, journalVars>> /\ faults' # 0
        \/ Compact
    <2>1. faults + 1 # 0
      BY <1>1
    <2> QED BY <2>1 DEF Persist
  <1> QED BY <1>6, <1>7, <1>8, <1>9

(* A line appended for a record keeps the journal in step with memory.     *)
LEMMA PersistKeeps ==
    ASSUME QueueInv, NEW a \in Alerts, NEW r \in Record, Persist(a, r),
           event[a] # None, Retried(r), rec[a].status = "pending" => r.status = "pending",
           \A c \in Channels : r.legs[c] = "delivered" => rec[a].legs[c] = "delivered",
           UNCHANGED <<event, rec, sends>>,
           sender' \in [new: Alerts \cup {None}, sup: SUBSET Alerts],
           sender'.sup \subseteq sender.sup,
           sender'.new = sender.new \/ (sender'.new = None /\ sender.new = a),
           worker' \in WorkerState, ToSet(worker'.batch) \subseteq ToSet(worker.batch)
    PROVE  /\ faults' \in Nat /\ OutboxTypes' /\ AllRetried' /\ UnusedIsNowhere' /\ PendingIsKnown'
           /\ AckedIsKnown' /\ PendingIsDurable' /\ faults' >= faults
  <1> USE DEF QueueInv
  <1>1. /\ order' \in Seq(Alerts) /\ ToSet(order') \subseteq ToSet(order)
        /\ \A b \in ToSet(order) : rec[b].status = "pending" => b \in ToSet(order')
        /\ jlast' \in [Alerts -> Record] /\ jorder' \in Seq(Alerts)
        /\ ToSet(jorder') \subseteq ToSet(jorder) \cup ToSet(order) \cup {a}
        /\ \A b \in Alerts : jlast'[b].status = "pending" => b \in ToSet(jorder')
        /\ \A b \in Alerts : \/ jlast'[b] = jlast[b]
                             \/ (b = a /\ jlast'[b] = r)
                             \/ (jlast'[b] = rec[b] /\ b \in ToSet(order))
                             \/ jlast'[b] = NoRecord
        /\ faults' \in Nat /\ faults' >= faults
        /\ faults' = 0 =>
              \/ /\ jlast'[a] = r /\ a \in ToSet(jorder') /\ ToSet(jorder) \subseteq ToSet(jorder')
                 /\ \A b \in Alerts \ {a} : jlast'[b] = jlast[b]
              \/ \A b \in ToSet(order) : rec[b].status = "pending" =>
                     jlast'[b] = rec[b] /\ b \in ToSet(jorder')
    BY PersistEffect
  <1>2. OutboxTypes'
    BY <1>1 DEF OutboxTypes
  <1>3. AllRetried'
    BY <1>1, NoRecordTyped DEF AllRetried, Retried
  <1>4. UnusedIsNowhere'
    <2> SUFFICES ASSUME NEW b \in Alerts, event[b] = None
                 PROVE  /\ rec[b] = NoRecord /\ jlast'[b] = NoRecord
                        /\ b \notin ToSet(order') \cup ToSet(jorder') \cup ToSet(worker'.batch)
                        /\ b # sender'.new /\ b \notin sender'.sup
      BY DEF UnusedIsNowhere
    <2>1. /\ rec[b] = NoRecord /\ jlast[b] = NoRecord /\ b # a /\ b # None
          /\ b \notin ToSet(order) \cup ToSet(jorder) \cup ToSet(worker.batch)
          /\ b # sender.new /\ b \notin sender.sup
      BY OutboxConstants DEF UnusedIsNowhere
    <2>2. jlast'[b] = NoRecord
      BY <1>1, <2>1
    <2> QED BY <1>1, <2>1, <2>2
  <1>5. PendingIsKnown'
    BY <1>1 DEF PendingIsKnown
  <1>6. AckedIsKnown'
    <2>1. \A c \in Channels : NoRecord.legs[c] # "delivered"
      BY NoRecordTyped DEF NoLegs
    <2> QED BY <1>1, <2>1 DEF AckedIsKnown
  <1>7. PendingIsDurable'
    <2> SUFFICES ASSUME faults' = 0, NEW b \in Alerts, rec[b].status = "pending"
                 PROVE  /\ b \in ToSet(order')
                        /\ sender'.new # b => jlast'[b].status = "pending" /\ b \in ToSet(jorder')
      BY DEF PendingIsDurable, Known
    <2>1. b \in ToSet(order) /\ b \in ToSet(order')
      BY <1>1 DEF PendingIsKnown
    <2>2. faults = 0
      BY <1>1
    <2>3. ASSUME sender'.new # b PROVE jlast'[b].status = "pending" /\ b \in ToSet(jorder')
      <3>1. b = a \/ sender.new # b
        BY <2>3
      <3>2. sender.new # b => jlast[b].status = "pending" /\ b \in ToSet(jorder)
        BY <2>2 DEF PendingIsDurable
      <3> QED BY <1>1, <2>1, <3>1, <3>2
    <2> QED BY <2>1, <2>3
  <1> QED BY <1>1, <1>2, <1>3, <1>4, <1>5, <1>6, <1>7

-----------------------------------------------------------------------------
(* The worker                                                              *)

(* What the worker is between two records.                                 *)
LEMMA NextTyped ==
    ASSUME NEW batch \in Seq(Alerts)
    PROVE  LET w == NextOf(batch)
           IN  /\ w \in WorkerState /\ w.batch = batch /\ w.todo = {} /\ w.snap = NoRecord
               /\ w.verdict = [c \in Channels |-> "none"]
               /\ w.pc \in {"idle", "next"} /\ (w.pc # "idle" => batch # << >>)
  <1> DEFINE quiet == FALSE
             untold == [c \in Channels |-> "none"]
             nobody == {}
             rest == [pc |-> "idle", batch |-> << >>, route |-> nobody, todo |-> nobody,
                      verdict |-> untold, err |-> quiet, snap |-> NoRecord]
  <1>1. quiet \in BOOLEAN /\ untold \in [Channels -> {"none", "acked", "failed"}]
        /\ nobody \in SUBSET Channels /\ << >> \in Seq(Alerts) /\ nobody = {}
    OBVIOUS
  <1>2. NoRecord \in Record
    BY NoRecordTyped
  <1>3. Resting = rest
    BY Zenon DEF Resting
  <1> HIDE DEF quiet, untold, nobody
  <1>4. rest \in WorkerState
    BY <1>1, <1>2 DEF WorkerState
  <1>5. CASE batch = << >>
    BY <1>1, <1>3, <1>4, <1>5 DEF NextOf, untold
  <1>6. CASE batch # << >>
    <2> DEFINE go == [pc |-> "next", batch |-> batch, route |-> nobody, todo |-> nobody,
                      verdict |-> untold, err |-> quiet, snap |-> NoRecord]
    <2>1. NextOf(batch) = go
      BY <1>3, <1>6 DEF NextOf
    <2>2. go \in WorkerState
      BY <1>1, <1>2 DEF WorkerState
    <2> QED BY <1>1, <1>6, <2>1, <2>2 DEF untold
  <1> QED BY <1>5, <1>6

(* Between ticks the worker holds no batch.                                *)
LEMMA RestingIs == Resting = NextOf(<< >>) /\ Resting \in WorkerState
  <1>1. << >> \in Seq(Alerts)
    OBVIOUS
  <1>2. NextOf(<< >>) \in WorkerState
    BY <1>1, NextTyped
  <1>3. Resting = NextOf(<< >>)
    BY DEF NextOf
  <1> QED BY <1>2, <1>3

(* An action of the worker that changes nothing else.                      *)
LEMMA WorkerKeeps ==
    ASSUME QueueInv, UNCHANGED <<recordVars, journalVars, sender, faults>>,
           sends' \in [Channels -> [Alerts -> Nat]], worker' \in WorkerState, ToSet(worker'.batch) \subseteq ToSet(worker.batch) \cup ToSet(order),
           WorkerInOrder', SnapIsRecord', TodoIsOwed'
    PROVE  QueueInv'
  <1> USE DEF QueueInv, recordVars, journalVars
  <1>1. OutboxTypes'
    BY DEF OutboxTypes
  <1>2. UnusedIsNowhere'
    BY DEF UnusedIsNowhere
  <1>3. PendingIsDurable'
    BY DEF PendingIsDurable, Known
  <1> QED BY <1>1, <1>2, <1>3 DEF AllRetried, PendingIsKnown, AckedIsKnown

(* Choosing what is due keeps the queue and takes only what is pending.    *)
LEMMA DueKeeps ==
    ASSUME QueueInv, DeliverDue
    PROVE  QueueInv' /\ ToSet(worker'.batch) \subseteq {a \in Alerts : Pending(a)}
  <1>1. PICK late \in SUBSET Alerts :
           worker' = NextOf(Filtered(order, {a \in Alerts :
                                Pending(a) /\ (rec[a].attempts = 0 \/ a \in late)}))
    BY DEF DeliverDue
  <1> DEFINE due == Filtered(order, {a \in Alerts : Pending(a) /\ (rec[a].attempts = 0 \/ a \in late)})
  <1>2. order \in Seq(Alerts)
    BY DEF QueueInv, OutboxTypes
  <1>3. due \in Seq(Alerts) /\ ToSet(due) \subseteq ToSet(order)
        /\ ToSet(due) \subseteq {a \in Alerts : Pending(a)}
    BY <1>2, FilteredHolds, ListFacts
  <1> HIDE DEF due
  <1>4. worker' = NextOf(due)
    BY <1>1 DEF due
  <1>5. /\ worker' \in WorkerState /\ worker'.batch = due /\ worker'.todo = {}
        /\ worker'.snap = NoRecord /\ worker'.verdict = [c \in Channels |-> "none"]
        /\ worker'.pc \in {"idle", "next"} /\ (worker'.pc # "idle" => due # << >>)
    BY <1>3, <1>4, NextTyped
  <1>6. WorkerInOrder' /\ SnapIsRecord' /\ TodoIsOwed'
    BY <1>5, NoRecordTyped DEF WorkerInOrder, SnapIsRecord, TodoIsOwed, Retried
  <1>7. sends' \in [Channels -> [Alerts -> Nat]]
    BY DEF DeliverDue, QueueInv, OutboxTypes
  <1> QED BY <1>3, <1>5, <1>6, <1>7, WorkerKeeps DEF DeliverDue

(* A request is owed while the round lasts.                                *)
LEMMA BeginKeeps ==
    ASSUME QueueInv, BeginUnreadable \/ \E configured \in SUBSET Channels : BeginAttempt(configured)
    PROVE  QueueInv' /\ worker'.batch = worker.batch
  <1>1. /\ worker \in WorkerState /\ worker.pc = "next" /\ worker.batch # << >> /\ worker.todo = {}
        /\ \A c \in Channels : worker.verdict[c] = "none"
        /\ Retried(worker.snap)
    BY DEF QueueInv, OutboxTypes, WorkerInOrder, BeginUnreadable, BeginAttempt
  <1>2. /\ worker' \in WorkerState /\ worker'.batch = worker.batch /\ worker'.pc = "send"
        /\ worker'.verdict = worker.verdict /\ worker'.snap = worker.snap
        /\ \A c \in worker'.todo : Owed(Current, c)
    <2>1. CASE BeginUnreadable
      <3> DEFINE err == TRUE
      <3>1. worker' = [worker EXCEPT !.pc = "send", !.err = err] /\ err \in BOOLEAN
        BY <2>1 DEF BeginUnreadable
      <3> HIDE DEF err
      <3> QED BY <1>1, <3>1 DEF WorkerState
    <2>2. ASSUME NEW configured \in SUBSET Channels, BeginAttempt(configured)
          PROVE  /\ worker' \in WorkerState /\ worker'.batch = worker.batch /\ worker'.pc = "send"
                 /\ worker'.verdict = worker.verdict /\ worker'.snap = worker.snap
                 /\ \A c \in worker'.todo : Owed(Current, c)
      <3>1. PICK route : route = ChannelsFor(configured, event[Current])
        OBVIOUS
      <3>2. route \in SUBSET Channels
        BY <3>1 DEF ChannelsFor
      <3>3. PICK owed : owed = {c \in route : Owed(Current, c)}
        OBVIOUS
      <3>4. owed \in SUBSET Channels /\ \A c \in owed : Owed(Current, c)
        BY <3>2, <3>3
      <3>5. worker' = [worker EXCEPT !.pc = "send", !.route = route, !.todo = owed]
        BY <2>2, <3>1, <3>3 DEF BeginAttempt
      <3> QED BY <1>1, <3>2, <3>4, <3>5 DEF WorkerState
    <2> QED BY <2>1, <2>2
  <1>3. rec' = rec
    BY DEF BeginUnreadable, BeginAttempt, recordVars
  <1>4. WorkerInOrder' /\ SnapIsRecord'
    BY <1>1, <1>2 DEF WorkerInOrder, SnapIsRecord, Retried
  <1>5. TodoIsOwed'
    BY <1>1, <1>2, <1>3 DEF TodoIsOwed, Current, Owed
  <1>6. sends' \in [Channels -> [Alerts -> Nat]]
    BY DEF BeginUnreadable, BeginAttempt, QueueInv, OutboxTypes
  <1> QED BY <1>2, <1>4, <1>5, <1>6, WorkerKeeps DEF BeginUnreadable, BeginAttempt

(* The alert a busy worker is at is one of its batch, with its event.      *)
LEMMA CurrentIs ==
    ASSUME QueueInv, worker.pc # "idle"
    PROVE  /\ worker \in WorkerState /\ worker.batch \in Seq(Alerts)
           /\ Current \in Alerts /\ Current \in ToSet(worker.batch)
           /\ event[Current] # None
           /\ Tail(worker.batch) \in Seq(Alerts) /\ ToSet(Tail(worker.batch)) \subseteq ToSet(worker.batch)
  <1>1. worker \in WorkerState /\ worker.batch \in Seq(Alerts) /\ worker.batch # << >>
    BY DEF QueueInv, OutboxTypes, WorkerInOrder, WorkerState
  <1>2. Current \in Alerts /\ Current \in ToSet(worker.batch)
        /\ Tail(worker.batch) \in Seq(Alerts) /\ ToSet(Tail(worker.batch)) \subseteq ToSet(worker.batch)
    BY <1>1, ListFacts DEF Current
  <1>3. event[Current] # None
    BY <1>2 DEF QueueInv, UnusedIsNowhere
  <1> QED BY <1>1, <1>2, <1>3

(* One request: of the current record, to a channel it owes.               *)
LEMMA LegKeeps ==
    ASSUME QueueInv, NEW c \in Channels, SendLeg(c)
    PROVE  /\ QueueInv' /\ worker'.batch = worker.batch
           /\ worker.pc = "send" /\ c \in worker.todo
           /\ \A d \in Channels, a \in Alerts :
                 sends'[d][a] # sends[d][a] => d = c /\ a = Current /\ sends'[d][a] = sends[d][a] + 1
  <1>1. PICK v \in {"acked", "failed"} :
            worker' = [worker EXCEPT !.todo = @ \ {c}, !.verdict[c] = v]
    BY DEF SendLeg
  <1>2. /\ worker.pc = "send" /\ c \in worker.todo /\ sends' = [sends EXCEPT ![c][Current] = @ + 1]
        /\ UNCHANGED <<recordVars, journalVars, sender, faults>>
    BY DEF SendLeg
  <1>3. worker \in WorkerState /\ Current \in Alerts
    BY <1>2, CurrentIs
  <1>4. /\ worker' \in WorkerState /\ worker'.batch = worker.batch /\ worker'.pc = "send"
        /\ worker'.todo = worker.todo \ {c} /\ worker'.snap = worker.snap
        /\ \A d \in Channels : worker'.verdict[d] = "failed" => d = c \/ worker.verdict[d] = "failed"
    BY <1>1, <1>2, <1>3 DEF WorkerState
  <1>5. sends' \in [Channels -> [Alerts -> Nat]]
        /\ \A d \in Channels, a \in Alerts :
              sends'[d][a] # sends[d][a] => d = c /\ a = Current /\ sends'[d][a] = sends[d][a] + 1
    BY <1>2, <1>3 DEF QueueInv, OutboxTypes
  <1>6. WorkerInOrder' /\ SnapIsRecord'
    BY <1>2, <1>4 DEF QueueInv, WorkerInOrder, SnapIsRecord, Retried
  <1>7. TodoIsOwed'
    BY <1>2, <1>4 DEF QueueInv, TodoIsOwed, Current, recordVars
  <1> QED BY <1>2, <1>4, <1>5, <1>6, <1>7, WorkerKeeps

(* The verdicts of a round keep what was delivered.                        *)
LEMMA OutcomeTyped ==
    ASSUME QueueInv, worker.pc = "send", Pending(Current)
    PROVE  LET a == Current
               o == Outcome(rec[a])
           IN  /\ o \in Record /\ Retried(o) /\ o.status # "none"
               /\ \A c \in Channels : rec[a].legs[c] = "delivered" => o.legs[c] = "delivered"
  <1> DEFINE a == Current
             r == rec[a]
             legs == [c \in Channels |-> CASE worker.verdict[c] = "acked"  -> "delivered"
                                           [] worker.verdict[c] = "failed" -> "pending"
                                           [] OTHER                        -> r.legs[c]]
             last == [c \in Channels |-> IF legs[c] = "pending" THEN "dead_lettered" ELSE legs[c]]
             told == ~worker.err /\ \A c \in worker.route : legs[c] = "delivered"
             n == r.attempts + 1
             status == CASE told -> "delivered"
                         [] ~told /\ Exhausted(n) -> "dead_lettered"
                         [] OTHER -> "pending"
             final == IF ~told /\ Exhausted(n) THEN last ELSE legs
  <1>1. worker \in WorkerState /\ a \in Alerts /\ r \in Record /\ r.status = "pending"
    BY CurrentIs DEF QueueInv, OutboxTypes, Pending
  <1>2. r.attempts \in 0..MaxAttempts /\ r.attempts < MaxAttempts /\ r.legs \in [Channels -> LegStatus]
    BY <1>1 DEF Record, QueueInv, AllRetried, Retried
  <1>3. \A c \in Channels : worker.verdict[c] = "failed" => r.legs[c] # "delivered"
    BY DEF QueueInv, TodoIsOwed
  <1>4. Outcome(r) = [attempts |-> n, status |-> status, legs |-> final]
    BY DEF Outcome
  <1> HIDE DEF a, r
  <1>5. legs \in [Channels -> LegStatus]
        /\ \A c \in Channels : r.legs[c] = "delivered" => legs[c] = "delivered"
    BY <1>1, <1>2, <1>3 DEF LegStatus, WorkerState
  <1> HIDE DEF legs
  <1>6. final \in [Channels -> LegStatus]
        /\ \A c \in Channels : r.legs[c] = "delivered" => final[c] = "delivered"
    BY <1>5 DEF LegStatus
  <1>7. n \in 0..MaxAttempts /\ (~Exhausted(n) => n < MaxAttempts)
    BY <1>2, OutboxConstants DEF Exhausted
  <1>8. status \in {"pending", "delivered", "dead_lettered"} /\ (status = "pending" => ~Exhausted(n))
    OBVIOUS
  <1> HIDE DEF final, n, status
  <1>9. Outcome(r) \in Record
    BY <1>4, <1>6, <1>7, <1>8 DEF Record, RecordStatus
  <1>10. Retried(Outcome(r)) /\ Outcome(r).status # "none" /\ Outcome(r).legs = final
    BY <1>4, <1>7, <1>8 DEF Retried
  <1> QED BY <1>6, <1>9, <1>10 DEF a, r

(* The round is applied to the record, unless it turned terminal.          *)
LEMMA ConcludeKeeps ==
    ASSUME QueueInv, Conclude
    PROVE  /\ QueueInv' /\ ToSet(worker'.batch) \subseteq ToSet(worker.batch)
           /\ \A b \in Alerts : \/ rec'[b] = rec[b]
                                \/ (rec[b].status = "pending" /\ rec'[b].status # "none")
  <1> USE DEF QueueInv
  <1>1. /\ worker.pc = "send" /\ worker.todo = {}
        /\ UNCHANGED <<event, order, journalVars, sender, sends, faults>>
    BY DEF Conclude
  <1>2. /\ worker \in WorkerState /\ worker.batch \in Seq(Alerts)
        /\ Current \in Alerts /\ Current \in ToSet(worker.batch) /\ event[Current] # None
        /\ Tail(worker.batch) \in Seq(Alerts) /\ ToSet(Tail(worker.batch)) \subseteq ToSet(worker.batch)
        /\ worker.batch # << >>
    BY <1>1, CurrentIs DEF WorkerInOrder
  <1>3. CASE ~Pending(Current)
    <2>1. worker' = NextOf(Tail(worker.batch)) /\ UNCHANGED rec
      BY <1>3 DEF Conclude
    <2>2. /\ worker' \in WorkerState /\ worker'.batch = Tail(worker.batch) /\ worker'.todo = {}
          /\ worker'.snap = NoRecord /\ worker'.verdict = [c \in Channels |-> "none"]
          /\ worker'.pc \in {"idle", "next"} /\ (worker'.pc # "idle" => worker'.batch # << >>)
      BY <1>2, <2>1, NextTyped
    <2>3. WorkerInOrder' /\ SnapIsRecord' /\ TodoIsOwed'
      BY <2>2, NoRecordTyped DEF WorkerInOrder, SnapIsRecord, TodoIsOwed, Retried
    <2>4. sends' \in [Channels -> [Alerts -> Nat]]
      BY <1>1 DEF OutboxTypes
    <2> QED BY <1>1, <1>2, <2>1, <2>2, <2>3, <2>4, WorkerKeeps DEF recordVars
  <1>4. CASE Pending(Current)
    <2>1. PICK a \in Alerts : a = Current
      BY <1>2
    <2>2. PICK o \in Record : o = Outcome(rec[a])
      BY <1>1, <1>4, <2>1, OutcomeTyped
    <2>3. /\ Retried(o) /\ o.status # "none"
          /\ \A c \in Channels : rec[a].legs[c] = "delivered" => o.legs[c] = "delivered"
      BY <1>1, <1>4, <2>1, <2>2, OutcomeTyped
    <2>4. /\ rec' = [rec EXCEPT ![a] = o]
          /\ worker' = [Resting EXCEPT !.pc = "persist", !.batch = worker.batch, !.snap = o]
      BY <1>4, <2>1, <2>2 DEF Conclude
    <2>5. /\ worker' \in WorkerState /\ worker'.batch = worker.batch /\ worker'.pc = "persist"
          /\ worker'.snap = o
      <3>1. Resting \in WorkerState
        BY RestingIs
      <3> HIDE DEF Resting
      <3> QED BY <1>2, <2>4, <3>1 DEF WorkerState
    <2>6. rec \in [Alerts -> Record] /\ rec[a].status = "pending"
      BY <1>4, <2>1 DEF OutboxTypes, Pending
    <2>7. rec' \in [Alerts -> Record] /\ rec'[a] = o /\ \A b \in Alerts \ {a} : rec'[b] = rec[b]
      BY <2>4, <2>6
    <2>8. OutboxTypes'
      BY <1>1, <2>5, <2>7 DEF OutboxTypes, journalVars
    <2>9. WorkerInOrder' /\ AllRetried'
      BY <1>1, <1>2, <2>3, <2>5, <2>7 DEF WorkerInOrder, AllRetried, journalVars
    <2>10. UnusedIsNowhere'
      BY <1>1, <1>2, <2>1, <2>5, <2>7 DEF UnusedIsNowhere, journalVars
    <2>11. PendingIsKnown'
      BY <1>1, <2>6, <2>7 DEF PendingIsKnown, journalVars
    <2>12. SnapIsRecord' /\ TodoIsOwed'
      BY <2>1, <2>5, <2>7 DEF SnapIsRecord, TodoIsOwed, Current
    <2>13. AckedIsKnown'
      BY <1>1, <2>3, <2>7 DEF AckedIsKnown, journalVars
    <2>14. PendingIsDurable'
      BY <1>1, <2>6, <2>7 DEF PendingIsDurable, Known, journalVars
    <2>15. faults' \in Nat
      BY <1>1
    <2> QED BY <2>3, <2>5, <2>6, <2>7, <2>8, <2>9, <2>10, <2>11, <2>12, <2>13, <2>14, <2>15
  <1> QED BY <1>3, <1>4

(* Its outcome is appended after the lock was released.                    *)
LEMMA OutcomeKeeps ==
    ASSUME QueueInv, PersistOutcome
    PROVE  /\ QueueInv' /\ ToSet(worker'.batch) \subseteq ToSet(worker.batch) /\ faults' >= faults
           /\ UNCHANGED <<event, rec, sender, sends>>
  <1> USE DEF QueueInv
  <1>1. /\ worker.pc = "persist" /\ Persist(Current, worker.snap)
        /\ worker' = NextOf(Tail(worker.batch)) /\ UNCHANGED <<event, rec, sender, sends>>
    BY DEF PersistOutcome
  <1>2. /\ worker \in WorkerState /\ worker.batch \in Seq(Alerts)
        /\ Current \in Alerts /\ Current \in ToSet(worker.batch) /\ event[Current] # None
        /\ Tail(worker.batch) \in Seq(Alerts) /\ ToSet(Tail(worker.batch)) \subseteq ToSet(worker.batch)
    BY <1>1, CurrentIs
  <1>3. worker.snap \in Record /\ Retried(worker.snap)
    BY <1>2 DEF WorkerState, WorkerInOrder
  <1>4. /\ rec[Current].status = "pending" => worker.snap.status = "pending"
        /\ \A c \in Channels : worker.snap.legs[c] = "delivered" => rec[Current].legs[c] = "delivered"
    BY <1>1 DEF SnapIsRecord
  <1>5. /\ worker' \in WorkerState /\ worker'.batch = Tail(worker.batch) /\ worker'.todo = {}
        /\ worker'.snap = NoRecord /\ worker'.verdict = [c \in Channels |-> "none"]
        /\ worker'.pc \in {"idle", "next"} /\ (worker'.pc # "idle" => worker'.batch # << >>)
    BY <1>1, <1>2, NextTyped
  <1>6. WorkerInOrder' /\ SnapIsRecord' /\ TodoIsOwed'
    BY <1>5, NoRecordTyped DEF WorkerInOrder, SnapIsRecord, TodoIsOwed, Retried
  <1>7. sender' \in [new: Alerts \cup {None}, sup: SUBSET Alerts] /\ sender'.sup \subseteq sender.sup
        /\ sender'.new = sender.new
    BY <1>1 DEF OutboxTypes
  <1>8. /\ faults' \in Nat /\ OutboxTypes' /\ AllRetried' /\ UnusedIsNowhere' /\ PendingIsKnown'
        /\ AckedIsKnown' /\ PendingIsDurable' /\ faults' >= faults
    BY <1>1, <1>2, <1>3, <1>4, <1>5, <1>7, PersistKeeps
  <1> QED BY <1>1, <1>2, <1>5, <1>6, <1>8

-----------------------------------------------------------------------------
(* Send, RecordSuppressed and load                                         *)

(* A new record, and what it supersedes, are in memory first.              *)
LEMMA QueuedKeeps ==
    ASSUME QueueInv, NEW a \in Alerts, NEW e \in Event, NEW r \in Record, NEW sup \in SUBSET Alerts,
           sender = NoSend, event[a] = None, event' = [event EXCEPT ![a] = e],
           r.legs = NoLegs, Retried(r),
           rec' \in [Alerts -> Record], rec'[a] = r,
           \A b \in Alerts \ {a} : \/ rec'[b] = rec[b]
                                   \/ rec'[b].status = "superseded" /\ rec'[b].legs = rec[b].legs
                                      /\ rec[b].status = "pending",
           order' = Append(order, a), sender' = [new |-> a, sup |-> sup],
           \A b \in sup : rec[b].status = "pending",
           UNCHANGED <<journalVars, worker, sends, faults>>
    PROVE  QueueInv'
  <1> USE DEF QueueInv, journalVars
  <1>1. e # None /\ a # None
    BY EventRecords, OutboxConstants
  <1>2. /\ event \in [Alerts -> Event \cup {None}] /\ order \in Seq(Alerts) /\ worker \in WorkerState
        /\ rec \in [Alerts -> Record] /\ jlast \in [Alerts -> Record]
    BY DEF OutboxTypes
  <1>3. order' \in Seq(Alerts) /\ ToSet(order') = ToSet(order) \cup {a}
    BY <1>2, ListFacts
  <1>4. sender'.new = a /\ sender'.sup = sup /\ sender' \in [new: Alerts \cup {None}, sup: SUBSET Alerts]
    OBVIOUS
  <1>5. event'[a] = e /\ \A b \in Alerts \ {a} : event'[b] = event[b]
    BY <1>2
  <1>6. /\ rec[a] = NoRecord /\ jlast[a] = NoRecord /\ a \notin ToSet(worker.batch)
    BY DEF UnusedIsNowhere
  <1>7. OutboxTypes'
    BY <1>2, <1>3, <1>4 DEF OutboxTypes
  <1>8. WorkerInOrder'
    BY DEF WorkerInOrder, Retried
  <1>9. AllRetried'
    <2>1. \A b \in Alerts \ {a} : Retried(rec'[b])
      BY DEF AllRetried, Retried
    <2> QED BY <2>1 DEF AllRetried
  <1>10. UnusedIsNowhere'
    <2> SUFFICES ASSUME NEW b \in Alerts, event'[b] = None
                 PROVE  /\ rec'[b] = NoRecord /\ jlast[b] = NoRecord
                        /\ b \notin ToSet(order') \cup ToSet(jorder) \cup ToSet(worker.batch)
                        /\ b # sender'.new /\ b \notin sender'.sup
      BY DEF UnusedIsNowhere
    <2>1. b # a /\ event[b] = None
      BY <1>1, <1>5
    <2>2. /\ rec[b] = NoRecord /\ jlast[b] = NoRecord
          /\ b \notin ToSet(order) \cup ToSet(jorder) \cup ToSet(worker.batch)
      BY <2>1 DEF UnusedIsNowhere
    <2>3. rec[b].status # "pending"
      BY <2>2, NoRecordTyped
    <2> QED BY <1>3, <1>4, <2>1, <2>2, <2>3
  <1>11. PendingIsKnown'
    BY <1>3 DEF PendingIsKnown
  <1>12. worker.pc # "idle" => Current \in Alerts /\ Current # a
    BY <1>6, CurrentIs
  <1>13. SnapIsRecord'
    BY <1>12 DEF SnapIsRecord, Current
  <1>14. TodoIsOwed'
    BY <1>12 DEF TodoIsOwed, Current
  <1>15. AckedIsKnown'
    <2>1. \A c \in Channels : jlast[a].legs[c] # "delivered"
      BY <1>6, NoRecordTyped DEF NoLegs
    <2> QED BY <2>1 DEF AckedIsKnown
  <1>16. PendingIsDurable'
    <2> SUFFICES ASSUME faults = 0, NEW b \in Alerts, rec'[b].status = "pending"
                 PROVE  b \in ToSet(order')
                        /\ (sender'.new # b => jlast[b].status = "pending" /\ b \in ToSet(jorder))
      BY DEF PendingIsDurable, Known
    <2>1. CASE b = a
      BY <1>3, <1>4, <2>1
    <2>2. CASE b # a
      <3>1. rec[b].status = "pending" /\ sender.new # b
        BY <2>2, OutboxConstants DEF NoSend
      <3> QED BY <1>3, <3>1 DEF PendingIsDurable, Known
    <2> QED BY <2>1, <2>2
  <1> QED BY <1>7, <1>8, <1>9, <1>10, <1>11, <1>13, <1>14, <1>15, <1>16

(* Send: the alert is queued with what it supersedes, or not at all.       *)
LEMMA SendKeeps ==
    ASSUME QueueInv, NEW a \in Alerts, NEW e \in Event, Send(a, e)
    PROVE  /\ QueueInv'
           /\ sender = NoSend /\ event[a] = None /\ event' = [event EXCEPT ![a] = e]
           /\ UNCHANGED <<worker, sends, faults>>
           /\ \/ rec' = rec /\ sender' = NoSend
              \/ /\ sender'.new = a /\ rec'[a].status = "pending"
                 /\ \A b \in Alerts \ {a} :
                       IF Supersedes(e, b) THEN rec'[b].status = "superseded"
                                           ELSE rec'[b] = rec[b]
  <1>1. /\ sender = NoSend /\ event[a] = None /\ event' = [event EXCEPT ![a] = e]
        /\ UNCHANGED <<journalVars, worker, sends, faults>>
    BY DEF Send
  <1>2. /\ event \in [Alerts -> Event \cup {None}] /\ order \in Seq(Alerts)
        /\ rec \in [Alerts -> Record] /\ jlast \in [Alerts -> Record]
    BY DEF QueueInv, OutboxTypes
  <1>3. CASE UNCHANGED <<rec, order, sender>>
    <2> USE DEF QueueInv, journalVars
    <2>1. e # None /\ event'[a] = e /\ \A b \in Alerts \ {a} : event'[b] = event[b]
      BY <1>1, <1>2, EventRecords
    <2>2. OutboxTypes'
      BY <1>1, <1>2, <1>3 DEF OutboxTypes
    <2>3. UnusedIsNowhere'
      BY <1>1, <1>3, <2>1 DEF UnusedIsNowhere
    <2>4. PendingIsDurable'
      BY <1>1, <1>3 DEF PendingIsDurable, Known
    <2>5. WorkerInOrder' /\ AllRetried' /\ PendingIsKnown' /\ AckedIsKnown'
      BY <1>1, <1>3 DEF WorkerInOrder, AllRetried, PendingIsKnown, AckedIsKnown
    <2>6. SnapIsRecord' /\ TodoIsOwed'
      BY <1>1, <1>3 DEF SnapIsRecord, TodoIsOwed, Current
    <2> QED BY <1>1, <1>3, <2>2, <2>3, <2>4, <2>5, <2>6
  <1>4. CASE Enqueue(a, e)
    <2> DEFINE fresh == [status |-> "pending", attempts |-> 0, legs |-> NoLegs]
               sup == {b \in Alerts : Supersedes(e, b)}
    <2>1. /\ rec' = [b \in Alerts |-> CASE b = a     -> fresh
                                        [] b \in sup -> [rec[b] EXCEPT !.status = "superseded"]
                                        [] OTHER     -> rec[b]]
          /\ order' = Append(order, a) /\ sender' = [new |-> a, sup |-> sup]
      BY <1>4 DEF Enqueue, NoRecord
    <2>2. fresh \in Record /\ fresh.legs = NoLegs /\ fresh.status = "pending" /\ Retried(fresh)
      <3>1. NoLegs \in [Channels -> LegStatus] /\ 0 \in 0..MaxAttempts /\ 0 < MaxAttempts
        BY OutboxConstants DEF NoLegs, LegStatus
      <3> QED BY <3>1 DEF Record, RecordStatus, Retried
    <2> HIDE DEF fresh
    <2>3. \A b \in sup : rec[b].status = "pending" /\ b \in Alerts
      BY DEF Supersedes, Pending
    <2>4. a \notin sup
      BY <1>1, <2>3, NoRecordTyped DEF QueueInv, UnusedIsNowhere
    <2>5. \A b \in Alerts : [rec[b] EXCEPT !.status = "superseded"] \in Record
      BY <1>2 DEF Record, RecordStatus
    <2>6. \A b \in Alerts : /\ [rec[b] EXCEPT !.status = "superseded"].status = "superseded"
                            /\ [rec[b] EXCEPT !.status = "superseded"].legs = rec[b].legs
      BY <1>2 DEF Record
    <2>7. \A b \in Alerts : Supersedes(e, b) <=> b \in sup
      OBVIOUS
    <2>8. sup \in SUBSET Alerts
      OBVIOUS
    <2> HIDE DEF sup
    <2>9. rec' \in [Alerts -> Record]
      BY <1>2, <2>1, <2>2, <2>5
    <2>10. rec'[a] = fresh /\ \A b \in Alerts \ {a} :
               rec'[b] = IF b \in sup THEN [rec[b] EXCEPT !.status = "superseded"] ELSE rec[b]
      <3>1. rec'[a] = fresh
        BY <2>1, <2>4, Zenon
      <3>2. ASSUME NEW b \in Alerts \ {a}, b \in sup
            PROVE  rec'[b] = [rec[b] EXCEPT !.status = "superseded"]
        BY <2>1, <3>2, Zenon
      <3>3. ASSUME NEW b \in Alerts \ {a}, b \notin sup
            PROVE  rec'[b] = rec[b]
        BY <2>1, <3>3, Zenon
      <3> QED BY <3>1, <3>2, <3>3
    <2>11. \A b \in Alerts \ {a} : \/ rec'[b] = rec[b]
                                   \/ rec'[b].status = "superseded" /\ rec'[b].legs = rec[b].legs
                                      /\ rec[b].status = "pending"
      BY <2>3, <2>6, <2>10
    <2>12. QueueInv'
      BY <1>1, <2>1, <2>2, <2>3, <2>8, <2>9, <2>10, <2>11, QueuedKeeps
    <2> QED BY <1>1, <2>1, <2>2, <2>6, <2>7, <2>10, <2>12
  <1> QED BY <1>3, <1>4 DEF Send

(* RecordSuppressed: a record that is never sent.                          *)
LEMMA SuppressKeeps ==
    ASSUME QueueInv, NEW a \in Alerts, NEW e \in Event, RecordSuppressed(a, e)
    PROVE  /\ QueueInv'
           /\ sender = NoSend /\ event[a] = None /\ event' = [event EXCEPT ![a] = e]
           /\ UNCHANGED <<worker, sends, faults>>
           /\ sender'.new = a /\ \A b \in Alerts \ {a} : rec'[b] = rec[b]
  <1> DEFINE last == [status |-> "suppressed", attempts |-> 0, legs |-> NoLegs]
             nobody == {}
  <1>1. /\ sender = NoSend /\ event[a] = None /\ event' = [event EXCEPT ![a] = e]
        /\ rec' = [rec EXCEPT ![a] = last] /\ order' = Append(order, a)
        /\ sender' = [new |-> a, sup |-> nobody] /\ UNCHANGED <<journalVars, worker, sends, faults>>
    <2>1. last = [NoRecord EXCEPT !.status = "suppressed"]
      BY DEF NoRecord
    <2> HIDE DEF last
    <2> QED BY <2>1 DEF RecordSuppressed
  <1>2. last \in Record /\ last.legs = NoLegs /\ Retried(last)
    <2>1. NoLegs \in [Channels -> LegStatus] /\ 0 \in 0..MaxAttempts
      BY OutboxConstants DEF NoLegs, LegStatus
    <2> QED BY <2>1 DEF Record, RecordStatus, Retried
  <1>3. nobody \in SUBSET Alerts /\ \A b \in nobody : rec[b].status = "pending"
    OBVIOUS
  <1> HIDE DEF last, nobody
  <1>4. rec' \in [Alerts -> Record] /\ rec'[a] = last /\ \A b \in Alerts \ {a} : rec'[b] = rec[b]
    BY <1>1, <1>2 DEF QueueInv, OutboxTypes
  <1>5. QueueInv'
    BY <1>1, <1>2, <1>3, <1>4, QueuedKeeps
  <1> QED BY <1>1, <1>4, <1>5

(* The lines of a Send reach the journal one by one.                       *)
LEMMA LineKeeps ==
    ASSUME QueueInv, NEW a \in Alerts, Persist(a, rec[a]), event[a] # None,
           UNCHANGED <<event, rec, worker, sends>>,
           sender' \in [new: Alerts \cup {None}, sup: SUBSET Alerts], sender'.sup \subseteq sender.sup,
           sender'.new = sender.new \/ (sender'.new = None /\ sender.new = a)
    PROVE  QueueInv' /\ faults' >= faults
  <1> USE DEF QueueInv
  <1>1. rec[a] \in Record /\ Retried(rec[a]) /\ worker \in WorkerState
    BY DEF OutboxTypes, AllRetried
  <1>2. /\ faults' \in Nat /\ OutboxTypes' /\ AllRetried' /\ UnusedIsNowhere' /\ PendingIsKnown'
        /\ AckedIsKnown' /\ PendingIsDurable' /\ faults' >= faults
    BY <1>1, PersistKeeps
  <1>3. WorkerInOrder'
    BY DEF WorkerInOrder
  <1>4. SnapIsRecord' /\ TodoIsOwed'
    BY DEF SnapIsRecord, TodoIsOwed, Current
  <1> QED BY <1>2, <1>3, <1>4

(* A superseded record, then the new one.                                  *)
LEMMA SenderKeeps ==
    ASSUME QueueInv, (\E b \in Alerts : PersistSuperseded(b)) \/ PersistNew
    PROVE  /\ QueueInv' /\ faults' >= faults /\ UNCHANGED <<event, rec, worker, sends>>
           /\ (\E b \in Alerts : PersistSuperseded(b)) => sender # NoSend /\ sender'.new = sender.new
           /\ PersistNew => sender # NoSend
  <1>1. sender \in [new: Alerts \cup {None}, sup: SUBSET Alerts]
    BY DEF QueueInv, OutboxTypes
  <1>2. ASSUME NEW b \in Alerts, PersistSuperseded(b)
        PROVE  /\ QueueInv' /\ faults' >= faults /\ UNCHANGED <<event, rec, worker, sends>>
               /\ sender # NoSend /\ sender'.new = sender.new
    <2>1. /\ b \in sender.sup /\ Persist(b, rec[b]) /\ sender' = [sender EXCEPT !.sup = @ \ {b}]
          /\ UNCHANGED <<event, rec, worker, sends>>
      BY <1>2 DEF PersistSuperseded
    <2>2. event[b] # None
      BY <2>1 DEF QueueInv, UnusedIsNowhere
    <2>3. /\ sender' \in [new: Alerts \cup {None}, sup: SUBSET Alerts]
          /\ sender'.sup \subseteq sender.sup /\ sender'.new = sender.new
      BY <1>1, <2>1
    <2>4. sender # NoSend
      BY <2>1 DEF NoSend
    <2> QED BY <2>1, <2>2, <2>3, <2>4, LineKeeps
  <1>3. ASSUME PersistNew
        PROVE  /\ QueueInv' /\ faults' >= faults /\ UNCHANGED <<event, rec, worker, sends>>
               /\ sender # NoSend
    <2>1. /\ sender.new # None /\ Persist(sender.new, rec[sender.new]) /\ sender' = NoSend
          /\ UNCHANGED <<event, rec, worker, sends>>
      BY <1>3 DEF PersistNew
    <2>2. PICK a \in Alerts : a = sender.new
      BY <1>1, <2>1
    <2>3. event[a] # None
      BY <2>2 DEF QueueInv, UnusedIsNowhere
    <2>4. /\ sender' \in [new: Alerts \cup {None}, sup: SUBSET Alerts]
          /\ sender'.sup \subseteq sender.sup /\ sender'.new = None
      BY <2>1 DEF NoSend
    <2>5. sender # NoSend
      BY <2>1 DEF NoSend
    <2> QED BY <2>1, <2>2, <2>3, <2>4, <2>5, LineKeeps
  <1> QED BY <1>2, <1>3

(* A restart reads what the journal holds.                                 *)
LEMMA LoadKeeps ==
    ASSUME QueueInv, Load, UNCHANGED faults
    PROVE  QueueInv'
  <1> USE DEF QueueInv
  <1>1. /\ rec' = jlast /\ order' = jorder /\ sender' = NoSend /\ worker' = Resting
        /\ event' = event /\ jlast' = jlast /\ jorder' = jorder /\ sends' = sends /\ faults' = faults
    BY DEF Load, journalVars
  <1>2. /\ worker' \in WorkerState /\ worker'.batch = << >> /\ worker'.todo = {} /\ worker'.pc = "idle"
        /\ worker'.snap = NoRecord /\ worker'.verdict = [c \in Channels |-> "none"]
    BY <1>1, RestingIs, Zenon DEF Resting
  <1>3. sender' \in [new: Alerts \cup {None}, sup: SUBSET Alerts] /\ sender'.new = None /\ sender'.sup = {}
    BY <1>1 DEF NoSend
  <1>4. OutboxTypes'
    BY <1>1, <1>2, <1>3 DEF OutboxTypes
  <1>5. WorkerInOrder' /\ SnapIsRecord' /\ TodoIsOwed'
    BY <1>2, NoRecordTyped DEF WorkerInOrder, SnapIsRecord, TodoIsOwed, Retried
  <1>6. AllRetried' /\ PendingIsKnown' /\ AckedIsKnown'
    BY <1>1 DEF AllRetried, PendingIsKnown, AckedIsKnown
  <1>7. UnusedIsNowhere'
    <2>1. ToSet(worker'.batch) = {}
      BY <1>2 DEF ToSet
    <2>2. \A b \in Alerts : b # None
      BY OutboxConstants
    <2> QED BY <1>1, <1>3, <2>1, <2>2 DEF UnusedIsNowhere
  <1>8. PendingIsDurable'
    BY <1>1 DEF PendingIsKnown, PendingIsDurable, Known
  <1> QED BY <1>1, <1>4, <1>5, <1>6, <1>7, <1>8

-----------------------------------------------------------------------------
(* What an operation of the tracker does to incidents, and what it tells   *)

Stays(r) == incident'[r] = incident[r]
Noted(r) == /\ IsOpen(r) /\ ~incident[r].notified
            /\ incident'[r] # None /\ incident'[r].id = incident[r].id /\ incident'[r].notified
Ended(r) == IsOpen(r) /\ incident'[r] = None
Began(r) == ~IsOpen(r) /\ incident'[r] # None /\ incident'[r].id \in NewIds(UsedIds)

(* An incident is kept, announced, closed, or opened under a new id.       *)
Moves ==
    /\ \A r \in Rules : Stays(r) \/ Noted(r) \/ Ended(r) \/ Began(r)
    /\ \A r, q \in Rules : Began(r) /\ Began(q) /\ incident'[r].id = incident'[q].id => r = q

NowTold(r) == (Noted(r) \/ Began(r)) /\ incident'[r].notified

TellsTruth ==
    \A x \in ToSet(out') :
        \/ x.ev.inc = None
        \/ /\ ~x.held
           /\ \/ x.ev.kind = "opened" /\ \E r \in Rules : NowTold(r) /\ incident'[r].id = x.ev.inc
              \/ x.ev.kind = "repeat" /\ \E r \in Rules : Stays(r) /\ IsOpen(r)
                                         /\ incident[r].notified /\ incident[r].id = x.ev.inc
              \/ x.ev.kind = "recovered" /\ \E r \in Rules : Ended(r)
                                            /\ incident[r].notified /\ incident[r].id = x.ev.inc

TellsAll ==
    \A r \in Rules :
        /\ NowTold(r) => \E x \in ToSet(out') : x.ev.kind = "opened" /\ x.ev.inc = incident'[r].id
        /\ Ended(r) /\ incident[r].notified =>
              \E x \in ToSet(out') : x.ev.kind = "recovered" /\ x.ev.inc = incident[r].id

TellsOnce ==
    \A m, n \in 1..Len(out') :
        Opens(out'[m].ev) /\ Opens(out'[n].ev) /\ out'[m].ev.inc = out'[n].ev.inc => m = n

Saves ==
    /\ faults' \in Nat /\ faults' >= faults
    /\ file' = file \/ file' = incident'
    /\ faults' = 0 /\ file = incident => file' = incident'

(* Such an operation keeps what receivers are told in order.               *)
LEMMA TrackerTells ==
    ASSUME TrackerTypes, faults \in Nat, ToldInv, Unlocked, UNCHANGED <<outboxVars, crashes>>,
           TrackerTypes', Moves, TellsTruth, TellsAll, TellsOnce, Saves
    PROVE  ToldInv'
  <1>1. /\ sender = NoSend /\ sender' = NoSend /\ out = << >> /\ crashes' = crashes
        /\ event' = event /\ rec' = rec /\ worker' = worker /\ sends' = sends
    BY DEF ToldInv, SenderHoldsHead, Unlocked, outboxVars, recordVars
  <1>2. /\ Left = << >> /\ Left' = out' /\ out' \in Seq([ev: Event, held: BOOLEAN])
    BY <1>1 DEF Left, TrackerTypes
  <1>3. /\ \A r \in Rules : Stays(r) \/ Noted(r) \/ Ended(r) \/ Began(r)
        /\ \A r, q \in Rules : Began(r) /\ Began(q) /\ incident'[r].id = incident'[q].id => r = q
    BY DEF Moves
  <1>4. OneId(incident) /\ OneId(file)
    BY DEF ToldInv
  <1>5. \A i \in Incs : i # None
    BY EventConstants
  <1>6. ASSUME NEW i \in Incs
        PROVE  /\ ~Leaves("opened", i) /\ ~Leaves("repeat", i) /\ ~Leaves("recovered", i)
               /\ Leaves("opened", i)' => \E r \in Rules : NowTold(r) /\ incident'[r].id = i
               /\ Leaves("repeat", i)' => \E r \in Rules : /\ Stays(r) /\ IsOpen(r)
                                                           /\ incident[r].notified /\ incident[r].id = i
               /\ Leaves("recovered", i)' => \E r \in Rules : /\ Ended(r) /\ incident[r].notified
                                                              /\ incident[r].id = i
    <2>1. \A n \in 1..Len(out') : out'[n] \in ToSet(out')
      BY <1>2, ListFacts DEF Elements
    <2> QED BY <1>2, <1>5, <2>1 DEF Leaves, TellsTruth
  <1>7. ASSUME NEW i \in Incs
        PROVE  /\ ToldOpen(i) <=> \E r \in Rules : IsOpen(r) /\ incident[r].id = i /\ incident[r].notified
               /\ ToldOpen(i)' <=> \E r \in Rules : incident'[r] # None /\ incident'[r].id = i
                                                    /\ incident'[r].notified
               /\ i \in IdsOf(incident) <=> \E r \in Rules : IsOpen(r) /\ incident[r].id = i
               /\ i \in IdsOf(incident') <=> \E r \in Rules : incident'[r] # None /\ incident'[r].id = i
               /\ Handed("opened", i)' = Handed("opened", i)
               /\ Handed("recovered", i)' = Handed("recovered", i)
               /\ i \in NewIds(UsedIds) =>
                     /\ i \notin IdsOf(incident) /\ ~Handed("opened", i) /\ ~Handed("recovered", i)
    <2>1. i \in NewIds(UsedIds) => i \notin IdsOf(incident) /\ i \notin UsedIds
      BY DEF NewIds
    <2>2. Handed("opened", i) \/ Handed("recovered", i) => i \in UsedIds
      BY DEF Handed, UsedIds
    <2>3. Handed("opened", i)' = Handed("opened", i) /\ Handed("recovered", i)' = Handed("recovered", i)
      BY <1>1 DEF Handed
    <2> QED BY <2>1, <2>2, <2>3 DEF ToldOpen, IsOpen, IdsOf
  <1>8. SenderHoldsHead' /\ OneOpening' /\ RecoveryOvertakes'
    <2>1. SenderHoldsHead'
      BY <1>1 DEF SenderHoldsHead
    <2>2. OneOpening'
      <3>1. faults' = 0 => faults = 0
        BY DEF Saves
      <3> QED BY <1>1, <3>1 DEF OneOpening, ToldInv
    <2>3. RecoveryOvertakes'
      BY <1>1 DEF RecoveryOvertakes, ToldInv, SentOrNext, Overtaken
    <2> QED BY <2>1, <2>2, <2>3
  <1>9. OneId(incident')
    <2> SUFFICES ASSUME NEW r \in Rules, NEW q \in Rules, incident'[r] # None, incident'[q] # None,
                        incident'[r].id = incident'[q].id
                 PROVE  r = q
      BY DEF OneId
    <2>1. incident'[r].id \in Incs
      BY DEF TrackerTypes, Incident
    <2>2. \A p \in Rules : incident'[p] # None =>
             (IsOpen(p) /\ incident[p].id = incident'[p].id) \/ Began(p)
      BY <1>3 DEF Stays, Noted, Ended, IsOpen
    <2>3. CASE Began(r) /\ Began(q)
      BY <1>3, <2>3
    <2>4. CASE IsOpen(r) /\ incident[r].id = incident'[r].id /\ IsOpen(q) /\ incident[q].id = incident'[q].id
      BY <1>4, <2>4 DEF OneId, IsOpen
    <2>5. CASE Began(r) /\ IsOpen(q) /\ incident[q].id = incident'[q].id
      BY <1>7, <2>1, <2>5 DEF Began
    <2>6. CASE Began(q) /\ IsOpen(r) /\ incident[r].id = incident'[r].id
      BY <1>7, <2>1, <2>6 DEF Began
    <2> QED BY <2>2, <2>3, <2>4, <2>5, <2>6
  <1>10. OneId(file')
    BY <1>4, <1>9 DEF Saves
  <1>11. ASSUME NEW i \in Incs
         PROVE  /\ Leaves("opened", i)' \/ Leaves("repeat", i)' => ToldOpen(i)'
                /\ Leaves("recovered", i)' => i \notin IdsOf(incident')
    <2>1. Leaves("opened", i)' => ToldOpen(i)'
      BY <1>6, <1>7 DEF NowTold, Noted, Began
    <2>2. Leaves("repeat", i)' => ToldOpen(i)'
      BY <1>6, <1>7 DEF Stays, IsOpen
    <2>3. ASSUME Leaves("recovered", i)', i \in IdsOf(incident')
          PROVE  FALSE
      <3>1. PICK r \in Rules : Ended(r) /\ incident[r].id = i
        BY <1>6, <2>3
      <3>2. PICK q \in Rules : incident'[q] # None /\ incident'[q].id = i
        BY <1>7, <2>3
      <3>3. i \in IdsOf(incident)
        BY <1>7, <3>1 DEF Ended
      <3>4. ~Began(q)
        BY <1>7, <3>2, <3>3 DEF Began
      <3>5. IsOpen(q) /\ incident[q].id = i
        BY <1>3, <3>2, <3>4 DEF Stays, Noted, Ended, IsOpen
      <3>6. r = q
        BY <1>4, <3>1, <3>5 DEF OneId, IsOpen, Ended
      <3> QED BY <3>1, <3>2, <3>6 DEF Ended
    <2> QED BY <2>1, <2>2, <2>3
  <1>12. LeftIsTrue'
    BY <1>11 DEF LeftIsTrue
  <1>13. HeldIsUnnamed'
    <2>1. \A n \in 1..Len(out') : out'[n] \in ToSet(out')
      BY <1>2, ListFacts DEF Elements
    <2> QED BY <1>2, <2>1 DEF HeldIsUnnamed, TellsTruth
  <1>14. ToldAsOpen'
    <2> SUFFICES ASSUME crashes = 0, NEW i \in Incs
                 PROVE  /\ ToldOpen(i)' => Handed("opened", i)' \/ Leaves("opened", i)'
                        /\ Handed("opened", i)' => ToldOpen(i)' \/ Handed("recovered", i)' \/ Leaves("recovered", i)'
                        /\ Handed("recovered", i)' \/ Leaves("recovered", i)' => Handed("opened", i)'
                        /\ Handed("recovered", i)' => i \notin IdsOf(incident')
      BY <1>1 DEF ToldAsOpen
    <2>1. /\ ToldOpen(i) => Handed("opened", i) \/ Leaves("opened", i)
          /\ Handed("opened", i) => ToldOpen(i) \/ Handed("recovered", i) \/ Leaves("recovered", i)
          /\ Handed("recovered", i) => Handed("opened", i)
          /\ Handed("recovered", i) => i \notin IdsOf(incident)
      BY DEF ToldAsOpen, ToldInv
    <2>2. \A x \in ToSet(out') : \E n \in 1..Len(out') : x = out'[n]
      BY <1>2, ListFacts DEF Elements
    <2>3. ASSUME ToldOpen(i)' PROVE Handed("opened", i)' \/ Leaves("opened", i)'
      <3>1. PICK r \in Rules : incident'[r] # None /\ incident'[r].id = i /\ incident'[r].notified
        BY <1>7, <2>3
      <3>2. CASE NowTold(r)
        BY <1>2, <2>2, <3>1, <3>2 DEF TellsAll, Leaves
      <3>3. CASE ~NowTold(r)
        <4>1. Stays(r)
          BY <1>3, <3>1, <3>3 DEF NowTold, Ended
        <4>2. ToldOpen(i)
          BY <1>7, <3>1, <4>1 DEF Stays, IsOpen
        <4> QED BY <1>6, <1>7, <2>1, <4>2
      <3> QED BY <3>2, <3>3
    <2>4. ASSUME Handed("opened", i)
          PROVE  ToldOpen(i)' \/ Handed("recovered", i) \/ Leaves("recovered", i)'
      <3>1. SUFFICES ASSUME ~Handed("recovered", i) PROVE ToldOpen(i)' \/ Leaves("recovered", i)'
        OBVIOUS
      <3>2. PICK r \in Rules : IsOpen(r) /\ incident[r].id = i /\ incident[r].notified
        BY <1>6, <1>7, <2>1, <2>4, <3>1
      <3>3. CASE Ended(r)
        BY <1>2, <2>2, <3>2, <3>3 DEF TellsAll, Leaves
      <3>4. CASE Stays(r)
        BY <1>7, <3>2, <3>4 DEF Stays, IsOpen
      <3> QED BY <1>3, <3>2, <3>3, <3>4 DEF Noted, Began
    <2>5. Leaves("recovered", i)' => Handed("opened", i)
      BY <1>6, <1>7, <2>1 DEF Ended
    <2>6. ASSUME Handed("recovered", i), i \in IdsOf(incident') PROVE FALSE
      <3>1. PICK q \in Rules : incident'[q] # None /\ incident'[q].id = i
        BY <1>7, <2>6
      <3>2. ~Began(q)
        BY <1>7, <2>6, <3>1 DEF Began
      <3>3. i \in IdsOf(incident)
        BY <1>3, <1>7, <3>1, <3>2 DEF Stays, Noted, Ended, IsOpen
      <3> QED BY <2>1, <2>6, <3>3
    <2> QED BY <1>7, <2>1, <2>3, <2>4, <2>5, <2>6
  <1>15. OpensOnce'
    <2> SUFFICES ASSUME faults' = 0 PROVE OpensOnce'
      BY DEF OpensOnce
    <2>0. ASSUME NEW r \in Rules
          PROVE  Handed("opened", incident[r].id)' = Handed("opened", incident'[r].id)
      BY <1>1 DEF Handed
    <2>1. faults = 0
      BY DEF Saves
    <2>2. /\ file = incident
          /\ \A r \in Rules : IsOpen(r) /\ ~incident[r].notified => ~Handed("opened", incident[r].id)
      BY <2>1 DEF OpensOnce, ToldInv
    <2>3. file' = incident'
      BY <2>2 DEF Saves
    <2>4. ASSUME NEW r \in Rules, incident'[r] # None, ~incident'[r].notified
          PROVE  ~Handed("opened", incident'[r].id)
      <3>1. incident'[r].id \in Incs
        BY <2>4 DEF TrackerTypes, Incident
      <3>2. CASE Stays(r)
        BY <2>2, <2>4, <3>2 DEF Stays, IsOpen
      <3>3. CASE Began(r)
        BY <1>7, <3>1, <3>3 DEF Began
      <3> QED BY <1>3, <2>4, <3>2, <3>3 DEF Noted, Ended
    <2>5. ASSUME NEW i \in Incs, Leaves("opened", i)'
          PROVE  ~Handed("opened", i)
      <3>1. PICK r \in Rules : NowTold(r) /\ incident'[r].id = i
        BY <1>6, <2>5
      <3>2. CASE Noted(r)
        BY <2>2, <3>1, <3>2 DEF Noted
      <3>3. CASE Began(r)
        BY <1>7, <3>1, <3>3 DEF Began
      <3> QED BY <3>1, <3>2, <3>3 DEF NowTold
    <2>6. \A r \in Rules : incident'[r] # None /\ ~incident'[r].notified
                              => ~Handed("opened", incident[r].id)'
      BY <2>0, <2>4
    <2>7. \A i \in Incs : Leaves("opened", i)' => ~Handed("opened", i)'
      BY <1>7, <2>5
    <2>8. \A m, n \in 1..Len(Left') :
             Opens(Left'[m].ev) /\ Opens(Left'[n].ev) /\ Left'[m].ev.inc = Left'[n].ev.inc => m = n
      BY <1>2 DEF TellsOnce
    <2> QED BY <2>3, <2>6, <2>7, <2>8 DEF OpensOnce, IsOpen, Opens
  <1> QED BY <1>8, <1>9, <1>10, <1>12, <1>13, <1>14, <1>15 DEF ToldInv, OneId

-----------------------------------------------------------------------------
(* The operations of the tracker                                           *)

Parcel == [ev: Event, held: BOOLEAN]
Effect == TrackerTypes' /\ Moves /\ TellsTruth /\ TellsAll /\ TellsOnce /\ Saves

(* A save, and its absence where no incident changed, leave no difference  *)
(* between memory and file but a counted fault.                            *)
LEMMA SaveSaves ==
    ASSUME TrackerTypes, faults \in Nat, incident' \in [Rules -> Incident \cup {None}],
           Save \/ (NoSave /\ incident' = incident)
    PROVE  Saves /\ file' \in [Rules -> Incident \cup {None}] /\ firstRun' \in BOOLEAN
  <1>1. Saves
    <2>1. faults + 1 # 0 /\ faults + 1 \in Nat /\ faults + 1 >= faults
      OBVIOUS
    <2> QED BY <2>1 DEF Save, NoSave, Written, Saves
  <1>2. file' \in [Rules -> Incident \cup {None}]
    BY <1>1 DEF Saves, TrackerTypes
  <1>3. firstRun' \in BOOLEAN
    BY Zenon DEF Save, NoSave, Written, TrackerTypes
  <1> QED BY <1>1, <1>2, <1>3

(* The streaks an observation leaves.                                      *)
LEMMA StreakTyped ==
    ASSUME TrackerTypes
    PROVE  /\ NoStreak \in Streak /\ [fails |-> FailAfter, oks |-> 0] \in Streak
           /\ \A r \in Rules : Failed(r) \in Streak /\ Passed(r) \in Streak
  <1>1. FailAfter \in Nat /\ RecoverAfter \in Nat /\ 0 \in 0..FailAfter /\ 0 \in 0..RecoverAfter
        /\ FailAfter \in 0..FailAfter
    BY TrackerConstants
  <1>2. ASSUME NEW r \in Rules
        PROVE  UpTo(streak[r].fails, FailAfter) \in 0..FailAfter
               /\ UpTo(streak[r].oks, RecoverAfter) \in 0..RecoverAfter
    <2>1. streak[r].fails \in 0..FailAfter /\ streak[r].oks \in 0..RecoverAfter
      BY DEF TrackerTypes, Streak
    <2> QED BY <1>1, <2>1 DEF UpTo
  <1> QED BY <1>1, <1>2 DEF NoStreak, Failed, Passed, Streak

(* The alerts of an incident are alerts.                                   *)
LEMMA ParcelTyped ==
    ASSUME NEW k \in Kind, NEW r \in Rules, NEW i \in Incs \cup {None}
    PROVE  /\ Sending(Alert(k, r, i)) \in Parcel /\ Holding(Alert(k, r, i)) \in Parcel
           /\ Sending(Alert(k, r, i)).ev.kind = k /\ Sending(Alert(k, r, i)).ev.inc = i
           /\ Holding(Alert(k, r, i)).ev.kind = k /\ Holding(Alert(k, r, i)).ev.inc = i
           /\ ~Sending(Alert(k, r, i)).held
  <1>1. Alert(k, r, i) \in Event /\ Alert(k, r, i).kind = k /\ Alert(k, r, i).inc = i
    BY DEF Alert, Event
  <1> DEFINE yes == TRUE
             no == FALSE
  <1>2. yes \in BOOLEAN /\ no \in BOOLEAN /\ ~no
    OBVIOUS
  <1>3. /\ Sending(Alert(k, r, i)) = [ev |-> Alert(k, r, i), held |-> no]
        /\ Holding(Alert(k, r, i)) = [ev |-> Alert(k, r, i), held |-> yes]
    BY DEF Sending, Holding
  <1> HIDE DEF yes, no
  <1> QED BY <1>1, <1>2, <1>3 DEF Parcel

(* A list of one alert.                                                    *)
LEMMA OneTold ==
    ASSUME NEW x \in Parcel
    PROVE  <<x>> \in Seq(Parcel) /\ ToSet(<<x>>) = {x} /\ Len(<<x>>) = 1 /\ <<x>>[1] = x
  <1>1. DOMAIN <<x>> = {1}
    OBVIOUS
  <1> QED BY <1>1 DEF ToSet

(* The empty list of parcels.                                              *)
LEMMA NoneTold == << >> \in Seq(Parcel) /\ ToSet(<< >>) = {} /\ Len(<< >>) = 0
  <1>1. DOMAIN << >> = {}
    OBVIOUS
  <1> QED BY <1>1 DEF ToSet

(* The alerts of a set of rules, in any order, each once.                  *)
LEMMA ListTold ==
    ASSUME NEW S \in SUBSET Rules, NEW g \in [S -> Parcel], NEW list,
           list \in SetToSeqs({g[r] : r \in S})
    PROVE  list \in Seq(Parcel) /\ ToSet(list) = {g[r] : r \in S} /\ NoRepeats(list)
  <1> DEFINE T == {g[r] : r \in S}
  <1>1. IsFiniteSet(S)
    BY TrackerConstants, FS_Subset
  <1>2. T \subseteq Parcel
    OBVIOUS
  <1>3. g \in Surjection(S, T)
    BY DEF Surjection
  <1>4. list \in SetToSeqs(T)
    OBVIOUS
  <1> HIDE DEF T
  <1>5. IsFiniteSet(T)
    BY <1>1, <1>3, FS_Surjection
  <1>6. list \in [1..Cardinality(T) -> T] /\ \A i, j \in 1..Cardinality(T) : i # j => list[i] # list[j]
    BY <1>4 DEF SetToSeqs
  <1>7. list \in Seq(T) /\ Elements(list) = T /\ NoRepeats(list)
    BY <1>5, <1>6, ListingHolds
  <1>8. list \in Seq(Parcel)
    BY <1>2, <1>7
  <1>9. ToSet(list) = T
    BY <1>7, ListFacts
  <1> QED BY <1>7, <1>8, <1>9 DEF T

(* What changes no incident and tells nothing.                             *)
LEMMA QuietMove ==
    ASSUME TrackerTypes, faults \in Nat, Unlocked, incident' = incident, out' = out,
           streak' \in [Rules -> Streak], held' \subseteq Rules, adopting' \in BOOLEAN,
           Save \/ NoSave
    PROVE  Effect
  <1>1. out' = << >> /\ incident' \in [Rules -> Incident \cup {None}]
    BY DEF Unlocked, TrackerTypes
  <1>2. Saves /\ file' \in [Rules -> Incident \cup {None}] /\ firstRun' \in BOOLEAN
    BY <1>1, SaveSaves
  <1>3. TrackerTypes'
    BY <1>1, <1>2, NoneTold DEF TrackerTypes, Parcel
  <1>4. \A r \in Rules : Stays(r) /\ ~Began(r) /\ ~Noted(r) /\ ~Ended(r)
    BY DEF Stays, Began, Noted, Ended, IsOpen
  <1>5. Moves
    BY <1>4 DEF Moves
  <1>6. TellsTruth /\ TellsOnce
    BY <1>1, NoneTold DEF TellsTruth, TellsOnce
  <1>7. TellsAll
    BY <1>4 DEF TellsAll, NowTold
  <1> QED BY <1>2, <1>3, <1>5, <1>6, <1>7 DEF Effect

(* What changes no incident and tells one thing that opens nothing.        *)
LEMMA ReminderMove ==
    ASSUME TrackerTypes, faults \in Nat, incident' = incident, NEW x \in Parcel, out' = <<x>>,
           \/ x.ev.inc = None
           \/ ~x.held /\ x.ev.kind = "repeat" /\ \E r \in Rules : /\ IsOpen(r) /\ incident[r].notified
                                                                  /\ incident[r].id = x.ev.inc,
           streak' \in [Rules -> Streak], held' \subseteq Rules, adopting' \in BOOLEAN,
           Save \/ NoSave
    PROVE  Effect
  <1>1. incident' \in [Rules -> Incident \cup {None}]
    BY DEF TrackerTypes
  <1>2. Saves /\ file' \in [Rules -> Incident \cup {None}] /\ firstRun' \in BOOLEAN
    BY <1>1, SaveSaves
  <1>3. TrackerTypes'
    BY <1>1, <1>2, OneTold DEF TrackerTypes, Parcel
  <1>4. \A r \in Rules : Stays(r) /\ ~Began(r) /\ ~Noted(r) /\ ~Ended(r)
    BY DEF Stays, Began, Noted, Ended, IsOpen
  <1>5. Moves
    BY <1>4 DEF Moves
  <1>6. TellsTruth
    BY <1>4, OneTold DEF TellsTruth
  <1>7. TellsOnce
    BY OneTold DEF TellsOnce
  <1>8. TellsAll
    BY <1>4 DEF TellsAll, NowTold
  <1> QED BY <1>2, <1>3, <1>5, <1>6, <1>7, <1>8 DEF Effect

(* One incident opens under a new id, announced or not.                    *)
LEMMA OpenMove ==
    ASSUME TrackerTypes, faults \in Nat, NEW r \in Rules, NEW i \in NewIds(UsedIds), NEW told \in BOOLEAN,
           ~IsOpen(r), incident' = [incident EXCEPT ![r] = [id |-> i, notified |-> told]],
           out' = IF told THEN <<Opening(r, i)>> ELSE << >>,
           streak' \in [Rules -> Streak], held' \subseteq Rules, adopting' \in BOOLEAN, Save
    PROVE  Effect
  <1>1. i \in Incs
    BY DEF NewIds
  <1> DEFINE new == [id |-> i, notified |-> told]
  <1>2. new \in Incident /\ new # None /\ new.id = i /\ (new.notified <=> told)
    <2>1. new \in Incident
      BY <1>1 DEF Incident
    <2> QED BY <2>1, TrackerRecords
  <1>3. incident' = [incident EXCEPT ![r] = new]
    OBVIOUS
  <1> HIDE DEF new
  <1>4. /\ incident' \in [Rules -> Incident \cup {None}] /\ incident'[r] = new
        /\ \A q \in Rules \ {r} : incident'[q] = incident[q]
    BY <1>2, <1>3 DEF TrackerTypes
  <1>5. Saves /\ file' \in [Rules -> Incident \cup {None}] /\ firstRun' \in BOOLEAN
    BY <1>4, SaveSaves
  <1>6. /\ Opening(r, i) \in Parcel /\ Opening(r, i).ev.kind = "opened" /\ Opening(r, i).ev.inc = i
        /\ ~Opening(r, i).held
    BY <1>1, ParcelTyped DEF Opening, Kind
  <1>7. /\ out' \in Seq(Parcel) /\ ToSet(out') = (IF told THEN {Opening(r, i)} ELSE {})
        /\ Len(out') \in 0..1
    <2>1. CASE told
      BY <1>6, <2>1, OneTold
    <2>2. CASE ~told
      BY <2>2, NoneTold
    <2> QED BY <2>1, <2>2
  <1>8. TrackerTypes'
    BY <1>4, <1>5, <1>7 DEF TrackerTypes, Parcel
  <1>9. Began(r) /\ ~Noted(r) /\ ~Ended(r)
    BY <1>2, <1>4 DEF Began, Noted, Ended
  <1>10. \A q \in Rules \ {r} : Stays(q) /\ ~Began(q) /\ ~Noted(q) /\ ~Ended(q)
    BY <1>4 DEF Stays, Began, Noted, Ended, IsOpen
  <1>11. Moves
    BY <1>9, <1>10 DEF Moves
  <1>12. TellsTruth
    <2> SUFFICES ASSUME told
                 PROVE  \E q \in Rules : NowTold(q) /\ incident'[q].id = Opening(r, i).ev.inc
      BY <1>6, <1>7 DEF TellsTruth
    <2> QED BY <1>2, <1>4, <1>6, <1>9 DEF NowTold
  <1>13. TellsOnce
    <2>1. \A m, n \in 1..Len(out') : m = n
      BY <1>7
    <2> QED BY <2>1 DEF TellsOnce
  <1>14. TellsAll
    <2>1. \A q \in Rules : ~Ended(q) /\ (NowTold(q) => q = r /\ told)
      BY <1>2, <1>4, <1>9, <1>10 DEF NowTold
    <2> QED BY <1>2, <1>4, <1>6, <1>7, <2>1 DEF TellsAll
  <1> QED BY <1>5, <1>8, <1>11, <1>12, <1>13, <1>14 DEF Effect

(* Incidents close, and those that were announced recover.                 *)
LEMMA CloseMove ==
    ASSUME TrackerTypes, faults \in Nat, NEW S \in SUBSET Rules, \A r \in S : IsOpen(r), Closes(S),
           streak' \in [Rules -> Streak], held' \subseteq Rules, adopting' \in BOOLEAN, Save
    PROVE  Effect
  <1> DEFINE g == [r \in Told(S) |-> Recovery(r, incident[r].id)]
  <1>1. \A r \in Rules : IsOpen(r) => incident[r] \in Incident /\ incident[r].id \in Incs
    BY DEF TrackerTypes, IsOpen, Incident
  <1>2. Told(S) \in SUBSET Rules /\ \A r \in Told(S) : r \in S /\ IsOpen(r) /\ incident[r].notified
    BY DEF Told
  <1>3. \A r \in Told(S) : /\ g[r] \in Parcel /\ g[r].ev.kind = "recovered"
                           /\ g[r].ev.inc = incident[r].id /\ ~g[r].held
    BY <1>1, <1>2, ParcelTyped DEF Recovery, Kind
  <1>4. g \in [Told(S) -> Parcel]
    BY <1>3
  <1>5. out' \in SetToSeqs({g[r] : r \in Told(S)})
    <2>1. {g[r] : r \in Told(S)} = {Recovery(r, incident[r].id) : r \in Told(S)}
      BY Zenon
    <2> QED BY <2>1 DEF Closes
  <1> HIDE DEF g
  <1>6. out' \in Seq(Parcel) /\ ToSet(out') = {g[r] : r \in Told(S)}
    BY <1>2, <1>4, <1>5, ListTold
  <1>7. /\ incident' \in [Rules -> Incident \cup {None}]
        /\ \A r \in S : incident'[r] = None
        /\ \A r \in Rules \ S : incident'[r] = incident[r]
    BY DEF Closes, TrackerTypes
  <1>8. Saves /\ file' \in [Rules -> Incident \cup {None}] /\ firstRun' \in BOOLEAN
    BY <1>7, SaveSaves
  <1>9. TrackerTypes'
    BY <1>6, <1>7, <1>8 DEF TrackerTypes, Parcel
  <1>10. \A r \in S : Ended(r) /\ ~Began(r) /\ ~Noted(r)
    BY <1>7 DEF Ended, Began, Noted
  <1>11. \A r \in Rules \ S : Stays(r) /\ ~Began(r) /\ ~Noted(r) /\ ~Ended(r)
    BY <1>7 DEF Stays, Began, Noted, Ended, IsOpen
  <1>12. Moves
    BY <1>10, <1>11 DEF Moves
  <1>13. TellsTruth
    BY <1>2, <1>3, <1>6, <1>10 DEF TellsTruth
  <1>14. TellsOnce
    <2>1. \A n \in 1..Len(out') : out'[n] \in ToSet(out')
      BY <1>6, ListMember
    <2>2. \A x \in ToSet(out') : x.ev.kind = "recovered"
      BY <1>3, <1>6
    <2> QED BY <2>1, <2>2 DEF TellsOnce, Opens
  <1>15. TellsAll
    <2>1. \A r \in Rules : ~NowTold(r)
      BY <1>10, <1>11 DEF NowTold
    <2>2. \A r \in Rules : Ended(r) /\ incident[r].notified => r \in Told(S)
      BY <1>11 DEF Told
    <2> QED BY <1>3, <1>6, <2>1, <2>2 DEF TellsAll
  <1> QED BY <1>8, <1>9, <1>12, <1>13, <1>14, <1>15 DEF Effect

(* Held incidents open together, each under a new id.                      *)
LEMMA ReleaseMove ==
    ASSUME TrackerTypes, faults \in Nat, NEW S \in SUBSET Rules,
           NEW id \in Injection(S, NewIds(UsedIds)), NEW told \in SUBSET S, ReleaseHolds(S, id, told)
    PROVE  Effect
  <1> DEFINE g == [r \in told |-> Opening(r, id[r])]
  <1>1. /\ \A r \in S : ~IsOpen(r) /\ id[r] \in NewIds(UsedIds) /\ id[r] \in Incs
        /\ \A r, q \in S : id[r] = id[q] => r = q
    BY DEF ReleaseHolds, Releasable, Injection, IsInjective, NewIds
  <1>2. \A r \in told : /\ g[r] \in Parcel /\ g[r].ev.kind = "opened"
                        /\ g[r].ev.inc = id[r] /\ ~g[r].held
    BY <1>1, ParcelTyped DEF Opening, Kind
  <1>3. g \in [told -> Parcel]
    BY <1>2
  <1>4. out' \in SetToSeqs({g[r] : r \in told})
    <2>1. {g[r] : r \in told} = {Opening(r, id[r]) : r \in told}
      BY Zenon
    <2> QED BY <2>1 DEF ReleaseHolds
  <1> HIDE DEF g
  <1>5. out' \in Seq(Parcel) /\ ToSet(out') = {g[r] : r \in told} /\ NoRepeats(out')
    <2>1. told \in SUBSET Rules
      OBVIOUS
    <2> QED BY <1>3, <1>4, <2>1, ListTold
  <1>6. incident' = [r \in Rules |-> IF r \in S THEN [id |-> id[r], notified |-> r \in told]
                                     ELSE incident[r]]
    BY DEF ReleaseHolds
  <1>7. ASSUME NEW r \in S
        PROVE  /\ incident'[r] \in Incident /\ incident'[r] # None
               /\ incident'[r].id = id[r] /\ (incident'[r].notified <=> r \in told)
    <2> DEFINE is == r \in told
    <2>1. incident'[r] = [id |-> id[r], notified |-> is]
      BY <1>6, Zenon
    <2>2. is \in BOOLEAN /\ (is <=> r \in told)
      OBVIOUS
    <2> HIDE DEF is
    <2>3. incident'[r] \in Incident /\ incident'[r].id = id[r] /\ (incident'[r].notified <=> is)
      BY <1>1, <2>1, <2>2 DEF Incident
    <2> QED BY <2>2, <2>3, TrackerRecords
  <1>8. \A r \in Rules \ S : incident'[r] = incident[r]
    BY <1>6, Zenon
  <1>9. incident' \in [Rules -> Incident \cup {None}]
    <2>1. \A r \in Rules : incident'[r] \in Incident \cup {None}
      BY <1>7, <1>8 DEF TrackerTypes
    <2>2. incident' = [r \in Rules |-> incident'[r]]
      BY <1>6
    <2> QED BY <2>1, <2>2, Zenon
  <1>10. Saves /\ file' \in [Rules -> Incident \cup {None}] /\ firstRun' \in BOOLEAN
    BY <1>9, SaveSaves DEF ReleaseHolds
  <1>11. TrackerTypes'
    BY <1>5, <1>9, <1>10 DEF TrackerTypes, ReleaseHolds, Parcel
  <1>12. \A r \in S : Began(r) /\ ~Noted(r) /\ ~Ended(r)
    BY <1>1, <1>7 DEF Began, Noted, Ended
  <1>13. \A r \in Rules \ S : Stays(r) /\ ~Began(r) /\ ~Noted(r) /\ ~Ended(r)
    BY <1>8 DEF Stays, Began, Noted, Ended, IsOpen
  <1>14. Moves
    BY <1>1, <1>7, <1>12, <1>13 DEF Moves
  <1>15. TellsTruth
    <2>1. \A r \in told : NowTold(r) /\ incident'[r].id = g[r].ev.inc
      BY <1>2, <1>7, <1>12 DEF NowTold
    <2> QED BY <1>2, <1>5, <2>1 DEF TellsTruth
  <1>16. TellsOnce
    <2> SUFFICES ASSUME NEW m \in 1..Len(out'), NEW n \in 1..Len(out'),
                        out'[m].ev.inc = out'[n].ev.inc
                 PROVE  m = n
      BY DEF TellsOnce
    <2>1. out'[m] \in ToSet(out') /\ out'[n] \in ToSet(out')
      BY <1>5, ListMember
    <2>2. PICK r \in told : out'[m] = g[r]
      BY <1>5, <2>1
    <2>3. PICK q \in told : out'[n] = g[q]
      BY <1>5, <2>1
    <2>4. r = q
      BY <1>1, <1>2, <2>2, <2>3
    <2> QED BY <1>5, <2>2, <2>3, <2>4 DEF NoRepeats
  <1>17. TellsAll
    <2>1. \A r \in Rules : NowTold(r) => r \in told
      BY <1>7, <1>13 DEF NowTold
    <2>2. \A r \in Rules : ~Ended(r)
      BY <1>12, <1>13
    <2> QED BY <1>2, <1>5, <1>7, <2>1, <2>2 DEF TellsAll
  <1> QED BY <1>10, <1>11, <1>14, <1>15, <1>16, <1>17 DEF Effect

(* A summary before the alerts of a list.                                  *)
LEMMA PrependTold ==
    ASSUME NEW x \in Parcel, NEW s \in Seq(Parcel)
    PROVE  LET t == <<x>> \o s
           IN  /\ t \in Seq(Parcel) /\ ToSet(t) = {x} \cup ToSet(s) /\ Len(t) = Len(s) + 1 /\ t[1] = x
               /\ \A n \in 2..(Len(s) + 1) : t[n] = s[n - 1] /\ n - 1 \in 1..Len(s)
  <1> DEFINE t == <<x>> \o s
  <1>1. /\ t \in Seq(Parcel) /\ Len(t) = Len(s) + 1 /\ t[1] = x
        /\ \A n \in 2..(Len(s) + 1) : t[n] = s[n - 1] /\ n - 1 \in 1..Len(s)
    OBVIOUS
  <1>2. \A n \in 1..Len(s) : s[n] = t[n + 1] /\ n + 1 \in 2..(Len(s) + 1)
    OBVIOUS
  <1> HIDE DEF t
  <1>3. ToSet(t) = {t[n] : n \in 1..Len(t)} /\ ToSet(s) = {s[n] : n \in 1..Len(s)}
    BY <1>1, ListFacts DEF Elements
  <1>4. \A n \in 1..(Len(s) + 1) : n = 1 \/ n \in 2..(Len(s) + 1)
    OBVIOUS
  <1>5. 1 \in 1..(Len(s) + 1) /\ \A n \in 2..(Len(s) + 1) : n \in 1..(Len(s) + 1)
    OBVIOUS
  <1>6. ToSet(t) \subseteq {x} \cup ToSet(s)
    BY <1>1, <1>3, <1>4
  <1>7. {x} \cup ToSet(s) \subseteq ToSet(t)
    BY <1>1, <1>2, <1>3, <1>5
  <1> QED BY <1>1, <1>6, <1>7 DEF t

(* What was not announced is: alone, or each to machines after a summary.  *)
LEMMA AnnounceMove ==
    ASSUME TrackerTypes, faults \in Nat, OneId(incident), Announce
    PROVE  Effect
  <1> DEFINE yes == TRUE
             U == Unannounced
  <1>1. /\ incident' = [r \in Rules |-> IF r \in U THEN [incident[r] EXCEPT !.notified = yes]
                                        ELSE incident[r]]
        /\ UNCHANGED <<streak, held, adopting>> /\ Save
    BY Zenon DEF Announce, MarkAnnounced
  <1>2. yes \in BOOLEAN /\ yes
    OBVIOUS
  <1> HIDE DEF yes
  <1>3. U \in SUBSET Rules /\ \A r \in U : IsOpen(r) /\ ~incident[r].notified
                                           /\ incident[r] \in Incident /\ incident[r].id \in Incs
    BY DEF Unannounced, TrackerTypes, IsOpen, Incident
  <1>4. \A r \in U : /\ incident'[r] \in Incident /\ incident'[r] # None
                     /\ incident'[r].id = incident[r].id /\ incident'[r].notified
    <2> TAKE r \in U
    <2>1. incident'[r] = [incident[r] EXCEPT !.notified = yes]
      BY <1>1, <1>3
    <2>2. incident'[r] \in Incident /\ incident'[r].id = incident[r].id /\ incident'[r].notified = yes
      BY <1>2, <1>3, <2>1 DEF Incident
    <2> QED BY <1>2, <2>2, TrackerRecords
  <1>5. \A r \in Rules \ U : incident'[r] = incident[r]
    BY <1>1, Zenon
  <1>6. incident' \in [Rules -> Incident \cup {None}]
    <2>1. \A r \in Rules : incident'[r] \in Incident \cup {None}
      BY <1>4, <1>5 DEF TrackerTypes
    <2>2. incident' = [r \in Rules |-> incident'[r]]
      BY <1>1
    <2> QED BY <2>1, <2>2, Zenon
  <1>7. Saves /\ file' \in [Rules -> Incident \cup {None}] /\ firstRun' \in BOOLEAN
    BY <1>1, <1>6, SaveSaves
  <1>8. \A r \in U : Noted(r) /\ NowTold(r) /\ ~Began(r) /\ ~Ended(r)
    BY <1>3, <1>4 DEF Noted, NowTold, Began, Ended
  <1>9. \A r \in Rules \ U : Stays(r) /\ ~Began(r) /\ ~Noted(r) /\ ~Ended(r) /\ ~NowTold(r)
    BY <1>5 DEF Stays, Began, Noted, Ended, IsOpen, NowTold
  <1>10. Moves
    BY <1>8, <1>9 DEF Moves
  <1> DEFINE Each(list) == \A r \in U : \E x \in ToSet(list) : /\ x.ev.kind = "opened"
                                                             /\ x.ev.inc = incident[r].id
             Only(list) == \A x \in ToSet(list) :
                              \/ x.ev.inc = None
                              \/ /\ ~x.held /\ x.ev.kind = "opened"
                                 /\ \E r \in U : x.ev.inc = incident[r].id
  (* In both cases the alerts are an opening of each, and the summary.     *)
  <1>11. out' \in Seq(Parcel) /\ Each(out') /\ Only(out') /\ TellsOnce
    <2>1. ASSUME NEW r \in U, U = {r}, out' = <<Opening(r, incident[r].id)>>
          PROVE  out' \in Seq(Parcel) /\ Each(out') /\ Only(out') /\ TellsOnce
      <3>1. /\ Opening(r, incident[r].id) \in Parcel /\ ~Opening(r, incident[r].id).held
            /\ Opening(r, incident[r].id).ev.kind = "opened"
            /\ Opening(r, incident[r].id).ev.inc = incident[r].id
        BY <1>3, ParcelTyped DEF Opening, Kind
      <3>2. out' \in Seq(Parcel) /\ ToSet(out') = {Opening(r, incident[r].id)} /\ Len(out') = 1
        BY <2>1, <3>1, OneTold
      <3>3. TellsOnce
        BY <3>2 DEF TellsOnce
      <3> QED BY <2>1, <3>1, <3>2, <3>3
    <2>2. ASSUME NEW each \in SetToSeqs({MachineOpening(r) : r \in U}),
                 out' = <<Sending(SummaryAlert)>> \o each
          PROVE  out' \in Seq(Parcel) /\ Each(out') /\ Only(out') /\ TellsOnce
      <3> DEFINE g == [r \in U |-> MachineOpening(r)]
                 x == Sending(SummaryAlert)
      <3>1. x \in Parcel /\ x.ev.inc = None /\ ~Opens(x.ev)
        <4> DEFINE no == FALSE
        <4>1. x = [ev |-> SummaryAlert, held |-> no] /\ no \in BOOLEAN
          BY DEF Sending
        <4> HIDE DEF no, x
        <4>2. SummaryAlert \in Event /\ SummaryAlert.inc = None
          BY DEF SummaryAlert, Event, Kind
        <4> QED BY <4>1, <4>2 DEF Parcel, Opens
      <3>2. \A r \in U : /\ g[r] \in Parcel /\ g[r].ev.kind = "opened"
                         /\ g[r].ev.inc = incident[r].id /\ ~g[r].held
        <4> TAKE r \in U
        <4> DEFINE no == FALSE
                   e == [kind |-> "opened", rule |-> r, inc |-> incident[r].id, aud |-> "machine"]
        <4>1. e = [Alert("opened", r, incident[r].id) EXCEPT !.aud = "machine"]
          BY DEF Alert
        <4>2. e \in Event /\ e.kind = "opened" /\ e.inc = incident[r].id
          BY <1>3 DEF Event, Kind
        <4> HIDE DEF e
        <4>3. g[r] = [ev |-> e, held |-> no] /\ no \in BOOLEAN /\ ~no
          BY <4>1 DEF MachineOpening, Sending
        <4> HIDE DEF no
        <4> QED BY <4>2, <4>3 DEF Parcel
      <3>3. g \in [U -> Parcel]
        BY <3>2
      <3>4. each \in SetToSeqs({g[r] : r \in U})
        <4>1. {g[r] : r \in U} = {MachineOpening(r) : r \in U}
          BY Zenon
        <4> QED BY <4>1
      <3> HIDE DEF g
      <3>5. each \in Seq(Parcel) /\ ToSet(each) = {g[r] : r \in U} /\ NoRepeats(each)
        BY <1>3, <3>3, <3>4, ListTold
      <3>6. out' = <<x>> \o each
        BY <2>2
      <3> HIDE DEF x
      <3>7. /\ out' \in Seq(Parcel) /\ ToSet(out') = {x} \cup ToSet(each)
            /\ Len(out') = Len(each) + 1 /\ out'[1] = x
            /\ \A n \in 2..(Len(each) + 1) : out'[n] = each[n - 1] /\ n - 1 \in 1..Len(each)
        BY <3>1, <3>5, <3>6, PrependTold
      <3>8. Each(out')
        BY <3>2, <3>5, <3>7
      <3>9. Only(out')
        BY <3>1, <3>2, <3>5, <3>7
      <3>10. TellsOnce
        <4> SUFFICES ASSUME NEW m \in 1..Len(out'), NEW n \in 1..Len(out'), Opens(out'[m].ev),
                            Opens(out'[n].ev), out'[m].ev.inc = out'[n].ev.inc
                     PROVE  m = n
          BY DEF TellsOnce
        <4>1. m # 1 /\ n # 1
          BY <3>1, <3>7
        <4>2. Len(each) \in Nat /\ Len(out') = Len(each) + 1
          BY <3>5, <3>7
        <4>3. m \in 2..(Len(each) + 1) /\ n \in 2..(Len(each) + 1)
          BY <4>1, <4>2
        <4>4. /\ out'[m] = each[m - 1] /\ m - 1 \in 1..Len(each)
              /\ out'[n] = each[n - 1] /\ n - 1 \in 1..Len(each)
          BY <3>7, <4>3
        <4>5. each[m - 1] \in ToSet(each) /\ each[n - 1] \in ToSet(each)
          BY <3>5, <4>4, ListMember
        <4>6. PICK r \in U : each[m - 1] = g[r]
          BY <3>5, <4>5
        <4>7. PICK q \in U : each[n - 1] = g[q]
          BY <3>5, <4>5
        <4>8. r = q
          BY <1>3, <3>2, <4>4, <4>6, <4>7 DEF OneId, IsOpen
        <4>9. m - 1 = n - 1
          BY <3>5, <4>4, <4>6, <4>7, <4>8 DEF NoRepeats
        <4> QED BY <4>9
      <3> QED BY <3>7, <3>8, <3>9, <3>10
    <2> QED BY <2>1, <2>2 DEF Announce
  <1> HIDE DEF U
  <1>12. TrackerTypes'
    BY <1>1, <1>6, <1>7, <1>11 DEF TrackerTypes, Parcel
  <1>13. TellsTruth
    BY <1>3, <1>4, <1>8, <1>11 DEF TellsTruth
  <1>14. TellsAll
    BY <1>3, <1>4, <1>8, <1>9, <1>11 DEF TellsAll
  <1> QED BY <1>7, <1>10, <1>11, <1>12, <1>13, <1>14 DEF Effect

(* An observation of one rule.                                             *)
LEMMA ObserveMoves ==
    ASSUME TrackerTypes, faults \in Nat, OneId(incident), Unlocked, NEW r \in Rules,
           \/ FailQuietly(r) \/ FailRepeats(r) \/ FailHeld(r) \/ PassQuietly(r) \/ PassRecovers(r)
           \/ RetireClosed(r) \/ RetireOpen(r) \/ \E s \in Streak : Seed(r, s)
    PROVE  Effect
  <1>1. /\ streak \in [Rules -> Streak] /\ held \subseteq Rules /\ adopting \in BOOLEAN
        /\ NoStreak \in Streak /\ Failed(r) \in Streak /\ Passed(r) \in Streak
    BY StreakTyped DEF TrackerTypes
  <1>2. /\ [streak EXCEPT ![r] = Failed(r)] \in [Rules -> Streak]
        /\ [streak EXCEPT ![r] = Passed(r)] \in [Rules -> Streak]
        /\ held \ {r} \subseteq Rules /\ held \cup {r} \subseteq Rules
        /\ [q \in Rules |-> IF q \in {r} THEN NoStreak ELSE streak[q]] \in [Rules -> Streak]
        /\ \A s \in Streak : [streak EXCEPT ![r] = s] \in [Rules -> Streak]
    BY <1>1
  <1>3. {r} \in SUBSET Rules
    OBVIOUS
  <1>4. CASE FailQuietly(r)
    BY <1>1, <1>2, <1>4, QuietMove DEF FailQuietly
  <1>5. CASE PassQuietly(r)
    BY <1>1, <1>2, <1>5, QuietMove DEF PassQuietly
  <1>6. CASE RetireClosed(r)
    BY <1>1, <1>2, <1>6, QuietMove DEF RetireClosed, Forget
  <1>7. CASE \E s \in Streak : Seed(r, s)
    BY <1>1, <1>2, <1>7, QuietMove DEF Seed
  <1>8. CASE FailRepeats(r)
    <2> DEFINE x == Sending(Alert("repeat", r, incident[r].id))
    <2>1. IsOpen(r) /\ incident[r].notified /\ incident[r].id \in Incs
      BY <1>8 DEF FailRepeats, TrackerTypes, IsOpen, Incident
    <2>2. x \in Parcel /\ ~x.held /\ x.ev.kind = "repeat" /\ incident[r].id = x.ev.inc
      BY <2>1, ParcelTyped DEF Kind
    <2>3. /\ out' = <<x>> /\ incident' = incident /\ Save /\ held' = held /\ adopting' = adopting
          /\ streak' = [streak EXCEPT ![r] = Failed(r)]
      BY <1>8 DEF FailRepeats
    <2> HIDE DEF x
    <2> QED BY <1>1, <1>2, <2>1, <2>2, <2>3, ReminderMove
  <1>9. CASE FailHeld(r)
    <2> DEFINE x == Holding(Alert("opened", r, None))
    <2>1. x \in Parcel /\ x.ev.inc = None
      BY ParcelTyped DEF Kind
    <2>2. /\ incident' = incident /\ NoSave /\ held' = held \cup {r} /\ adopting' = adopting
          /\ streak' = [streak EXCEPT ![r] = Failed(r)]
          /\ out' = IF r \in held THEN << >> ELSE <<x>>
      BY <1>9 DEF FailHeld
    <2> HIDE DEF x
    <2>3. CASE r \in held
      <3>1. out' = out
        BY <2>2, <2>3 DEF Unlocked
      <3> QED BY <1>1, <1>2, <2>2, <3>1, QuietMove
    <2>4. CASE r \notin held
      BY <1>1, <1>2, <2>1, <2>2, <2>4, ReminderMove
    <2> QED BY <2>3, <2>4
  <1>10. CASE PassRecovers(r)
    BY <1>1, <1>2, <1>3, <1>10, CloseMove DEF PassRecovers
  <1>11. CASE RetireOpen(r)
    BY <1>1, <1>2, <1>3, <1>11, CloseMove DEF RetireOpen, Forget
  <1> QED BY <1>4, <1>5, <1>6, <1>7, <1>8, <1>9, <1>10, <1>11

(* An incident opens, by an observation or by adoption.                    *)
LEMMA OpeningMoves ==
    ASSUME TrackerTypes, faults \in Nat, Unlocked, NEW r \in Rules, NEW i \in NewIds(UsedIds),
           \/ AdoptOpen(r, i) \/ AdoptFailing(r, i)
           \/ \E hasChannels \in BOOLEAN : FailOpens(r, i, hasChannels)
    PROVE  Effect
  <1>1. /\ streak \in [Rules -> Streak] /\ held \subseteq Rules /\ adopting \in BOOLEAN
        /\ Failed(r) \in Streak /\ [fails |-> FailAfter, oks |-> 0] \in Streak
    BY StreakTyped DEF TrackerTypes
  <1>2. /\ [streak EXCEPT ![r] = Failed(r)] \in [Rules -> Streak] /\ held \ {r} \subseteq Rules
        /\ [streak EXCEPT ![r] = [fails |-> FailAfter, oks |-> 0]] \in [Rules -> Streak]
    BY <1>1
  <1>3. ASSUME NEW hasChannels \in BOOLEAN, FailOpens(r, i, hasChannels)
        PROVE  Effect
    <2> DEFINE told == hasChannels /\ ~adopting
    <2>1. /\ ~IsOpen(r) /\ incident' = [incident EXCEPT ![r] = [id |-> i, notified |-> told]]
          /\ out' = IF told THEN <<Opening(r, i)>> ELSE << >>
          /\ streak' = [streak EXCEPT ![r] = Failed(r)] /\ held' = held \ {r}
          /\ adopting' = adopting /\ Save
      BY <1>3, Zenon DEF FailOpens
    <2>2. told \in BOOLEAN
      OBVIOUS
    <2> HIDE DEF told
    <2> QED BY <1>1, <1>2, <2>1, <2>2, OpenMove
  <1>4. ASSUME Adopt(r, i), streak' \in [Rules -> Streak]
        PROVE  Effect
    <2> DEFINE told == FALSE
    <2>1. /\ ~IsOpen(r) /\ incident' = [incident EXCEPT ![r] = [id |-> i, notified |-> told]]
          /\ UNCHANGED <<held, adopting, out>> /\ Save
      BY <1>4, Zenon DEF Adopt
    <2>2. told \in BOOLEAN /\ ~told
      OBVIOUS
    <2>3. out' = << >>
      BY <2>1 DEF Unlocked
    <2> HIDE DEF told
    <2> QED BY <1>1, <1>4, <2>1, <2>2, <2>3, OpenMove
  <1>5. CASE AdoptOpen(r, i)
    BY <1>1, <1>4, <1>5 DEF AdoptOpen
  <1>6. CASE AdoptFailing(r, i)
    BY <1>2, <1>4, <1>6 DEF AdoptFailing
  <1> QED BY <1>3, <1>5, <1>6

(* Every operation of the tracker.                                         *)
LEMMA TrackerMoves ==
    ASSUME TrackerTypes, faults \in Nat, OneId(incident), TrackerStep
    PROVE  Effect /\ Unlocked /\ UNCHANGED <<outboxVars, crashes>>
  <1>1. Unlocked /\ UNCHANGED <<outboxVars, crashes>>
    BY DEF TrackerStep
  <1>2. /\ streak \in [Rules -> Streak] /\ held \subseteq Rules /\ adopting \in BOOLEAN
        /\ \A S \in SUBSET Rules :
              [r \in Rules |-> IF r \in S THEN NoStreak ELSE streak[r]] \in [Rules -> Streak]
    BY StreakTyped DEF TrackerTypes
  <1>3. ASSUME NEW S \in SUBSET Rules, CloseMatching(S) PROVE Effect
    BY <1>2, <1>3, CloseMove DEF CloseMatching
  <1>4. ASSUME NEW S \in SUBSET Rules, Sweep(S) PROVE Effect
    <2>1. streak' \in [Rules -> Streak] /\ held' \subseteq Rules /\ adopting' \in BOOLEAN
      BY <1>2, <1>4 DEF Sweep, Forget
    <2> QED BY <1>4, <2>1, CloseMove DEF Sweep
  <1>5. ASSUME NEW S \in SUBSET Rules, NEW id \in Injection(S, NewIds(UsedIds)),
               NEW told \in SUBSET S, ReleaseHolds(S, id, told)
        PROVE  Effect
    BY <1>5, ReleaseMove
  <1>6. ASSUME EndAdoption PROVE Effect
    <2> DEFINE no == FALSE
    <2>1. adopting' = no /\ no \in BOOLEAN /\ UNCHANGED <<streak, held, incident, out>> /\ Save
      BY <1>6 DEF EndAdoption
    <2> HIDE DEF no
    <2> QED BY <1>1, <1>2, <2>1, QuietMove
  <1>7. ASSUME Announce PROVE Effect
    BY <1>7, AnnounceMove
  <1>8. ASSUME NEW r \in Rules,
               \/ FailQuietly(r) \/ FailRepeats(r) \/ FailHeld(r) \/ PassQuietly(r) \/ PassRecovers(r)
               \/ RetireClosed(r) \/ RetireOpen(r) \/ \E s \in Streak : Seed(r, s)
        PROVE  Effect
    BY <1>1, <1>8, ObserveMoves
  <1>9. ASSUME NEW r \in Rules, NEW i \in NewIds(UsedIds),
               \/ AdoptOpen(r, i) \/ AdoptFailing(r, i)
               \/ \E hasChannels \in BOOLEAN : FailOpens(r, i, hasChannels)
        PROVE  Effect
    BY <1>1, <1>9, OpeningMoves
  <1>10. Effect
    BY <1>3, <1>4, <1>5, <1>6, <1>7, <1>8, <1>9, Zenon DEF TrackerStep
  <1> QED BY <1>1, <1>10, Zenon

(* A step of the tracker leaves the queue alone.                           *)
LEMMA QueueStays ==
    ASSUME QueueInv, UNCHANGED outboxVars, faults' \in Nat, faults' >= faults
    PROVE  QueueInv'
  <1> USE DEF QueueInv, outboxVars, recordVars, journalVars
  <1>1. OutboxTypes' /\ WorkerInOrder' /\ AllRetried'
    BY DEF OutboxTypes, WorkerInOrder, AllRetried
  <1>2. UnusedIsNowhere' /\ PendingIsKnown' /\ AckedIsKnown'
    BY DEF UnusedIsNowhere, PendingIsKnown, AckedIsKnown
  <1>3. SnapIsRecord' /\ TodoIsOwed'
    BY DEF SnapIsRecord, TodoIsOwed, Current
  <1>4. faults' = 0 => faults = 0
    OBVIOUS
  <1>5. PendingIsDurable'
    BY <1>4 DEF PendingIsDurable, Known
  <1> QED BY <1>1, <1>2, <1>3, <1>5

-----------------------------------------------------------------------------
(* Handing over                                                            *)

(* What is left holds before and after the head of a list was taken.       *)
LEMMA TailFacts ==
    ASSUME NEW S, NEW s \in Seq(S), s # << >>
    PROVE  /\ Tail(s) \in Seq(S) /\ Head(s) = s[1] /\ Head(s) \in S /\ Len(s) \in Nat /\ Len(s) >= 1
           /\ Len(Tail(s)) = Len(s) - 1
           /\ \A n \in 1..Len(Tail(s)) : Tail(s)[n] = s[n + 1] /\ n + 1 \in 1..Len(s)
           /\ \A n \in 1..Len(s) : n # 1 => n - 1 \in 1..Len(Tail(s)) /\ s[n] = Tail(s)[n - 1]
  OBVIOUS

(* The alert that is handed over is the head of what was left.             *)
LEMMA HandOverEffect ==
    ASSUME AlertingInv, NEW a \in Alerts, HandOver(a)
    PROVE  /\ QueueInv' /\ sender = NoSend /\ out # << >> /\ Left = out /\ Left' = Tail(out)
           /\ SenderHoldsHead'
           /\ event[a] = None /\ event' = [event EXCEPT ![a] = Head(out).ev]
           /\ UNCHANGED <<worker, sends, faults, incident, file, crashes>>
           /\ \/ rec' = rec
              \/ Head(out).held /\ \A b \in Alerts \ {a} : rec'[b] = rec[b]
              \/ /\ rec'[a].status = "pending"
                 /\ \A b \in Alerts \ {a} : IF Supersedes(Head(out).ev, b)
                                            THEN rec'[b].status = "superseded" ELSE rec'[b] = rec[b]
           /\ TrackerTypes'
  <1>1. QueueInv /\ out # << >> /\ out \in Seq(Parcel) /\ TrackerTypes
    BY DEF AlertingInv, HandOver, Unlocked, TrackerTypes, Parcel
  <1>2. Head(out) \in Parcel /\ Tail(out) \in Seq(Parcel)
    BY <1>1, TailFacts
  <1>3. PICK e \in Event : e = Head(out).ev
    BY <1>2 DEF Parcel
  <1>4. RecordSuppressed(a, e) \/ Send(a, e)
    BY <1>3 DEF HandOver
  <1>5. (Head(out).held /\ RecordSuppressed(a, e)) \/ Send(a, e)
    BY <1>3 DEF HandOver
  <1>6. IF sender' = NoSend THEN HandedOver ELSE UNCHANGED trackerVars
    BY Zenon DEF HandOver
  <1>7. a # None
    BY OutboxConstants
  <1>8. /\ QueueInv' /\ sender = NoSend /\ event[a] = None /\ event' = [event EXCEPT ![a] = e]
        /\ UNCHANGED <<worker, sends, faults>>
    BY <1>1, <1>4, SendKeeps, SuppressKeeps
  <1>9. sender' = NoSend \/ sender'.new = a
    BY <1>1, <1>4, SendKeeps, SuppressKeeps
  <1>10. /\ incident' = incident /\ file' = file /\ streak' = streak /\ held' = held
         /\ firstRun' = firstRun /\ adopting' = adopting
         /\ out' = IF sender' = NoSend THEN Tail(out) ELSE out
    BY <1>6 DEF HandedOver, trackerVars
  <1>11. crashes' = crashes
    BY DEF HandOver
  <1>12. Left = out /\ Left' = Tail(out)
    BY <1>8, <1>10 DEF Left
  <1>13. SenderHoldsHead'
    BY <1>1, <1>7, <1>9, <1>10 DEF SenderHoldsHead
  <1>14. TrackerTypes'
    BY <1>1, <1>2, <1>10 DEF TrackerTypes, Parcel
  <1>15. \/ rec' = rec
         \/ Head(out).held /\ \A b \in Alerts \ {a} : rec'[b] = rec[b]
         \/ /\ rec'[a].status = "pending"
            /\ \A b \in Alerts \ {a} : IF Supersedes(e, b)
                                       THEN rec'[b].status = "superseded" ELSE rec'[b] = rec[b]
    BY <1>1, <1>5, SendKeeps, SuppressKeeps
  <1> QED BY <1>1, <1>3, <1>8, <1>10, <1>11, <1>12, <1>13, <1>14, <1>15

(* An alert that was handed over counts as told instead of as left.        *)
LEMMA HandOverTells ==
    ASSUME AlertingInv, NEW a \in Alerts, HandOver(a)
    PROVE  ToldInv'
  <1>1. /\ sender = NoSend /\ out # << >> /\ Left = out /\ Left' = Tail(out) /\ SenderHoldsHead'
        /\ event[a] = None /\ event' = [event EXCEPT ![a] = Head(out).ev]
        /\ UNCHANGED <<worker, sends, faults, incident, file, crashes>>
        /\ \/ rec' = rec
           \/ Head(out).held /\ \A b \in Alerts \ {a} : rec'[b] = rec[b]
           \/ /\ rec'[a].status = "pending"
              /\ \A b \in Alerts \ {a} : IF Supersedes(Head(out).ev, b)
                                         THEN rec'[b].status = "superseded" ELSE rec'[b] = rec[b]
    BY HandOverEffect
  <1>2. /\ out \in Seq(Parcel) /\ event \in [Alerts -> Event \cup {None}] /\ ToldInv /\ QueueInv
    BY DEF AlertingInv, TrackerTypes, Parcel, QueueInv, OutboxTypes
  <1>2a. Head(out) = out[1] /\ Head(out) \in Parcel
    BY <1>1, <1>2, TailFacts
  <1>3. PICK e \in Event : e = Head(out).ev /\ e = out[1].ev
    BY <1>2a DEF Parcel
  <1>4. e # None /\ \A i \in Incs : i # None
    BY EventRecords, EventConstants
  <1>5. event'[a] = e /\ \A b \in Alerts \ {a} : event'[b] = event[b]
    BY <1>1, <1>2, <1>3
  <1>6. /\ Len(out) \in Nat /\ 1 \in 1..Len(out)
        /\ \A n \in 1..Len(Left') : Left'[n] = out[n + 1] /\ n + 1 \in 1..Len(out)
        /\ \A n \in 1..Len(out) : n # 1 => n - 1 \in 1..Len(Left') /\ out[n] = Left'[n - 1]
    BY <1>1, <1>2, TailFacts
  (* Told and left together are what they were.                            *)
  <1>7. ASSUME NEW i \in Incs, NEW k \in Kind
        PROVE  /\ Handed(k, i)' <=> Handed(k, i) \/ (e.kind = k /\ e.inc = i)
               /\ Leaves(k, i) <=> Leaves(k, i)' \/ (e.kind = k /\ e.inc = i)
    <2>1. Handed(k, i)' => Handed(k, i) \/ (e.kind = k /\ e.inc = i)
      BY <1>5 DEF Handed
    <2>2. Handed(k, i) => Handed(k, i)'
      BY <1>1, <1>5 DEF Handed
    <2>3. e.kind = k /\ e.inc = i => Handed(k, i)' /\ Leaves(k, i)
      BY <1>1, <1>3, <1>4, <1>5, <1>6 DEF Handed, Leaves
    <2>4. Leaves(k, i)' => Leaves(k, i)
      BY <1>1, <1>6 DEF Leaves
    <2>5. ASSUME Leaves(k, i) PROVE Leaves(k, i)' \/ (e.kind = k /\ e.inc = i)
      <3>1. PICK n \in 1..Len(out) : out[n].ev.kind = k /\ out[n].ev.inc = i
        BY <1>1, <2>5 DEF Leaves
      <3>2. CASE n = 1
        BY <1>3, <3>1, <3>2
      <3>3. CASE n # 1
        <4>1. n - 1 \in 1..Len(Left') /\ out[n] = Left'[n - 1]
          BY <1>6, <3>3
        <4> QED BY <3>1, <4>1 DEF Leaves
      <3> QED BY <3>2, <3>3
    <2> QED BY <2>1, <2>2, <2>3, <2>4, <2>5
  <1>8. "opened" \in Kind /\ "repeat" \in Kind /\ "recovered" \in Kind
    BY DEF Kind
  <1>9. OneId(incident)' /\ OneId(file)'
    BY <1>1, <1>2 DEF ToldInv, OneId
  <1>10. ASSUME NEW i \in Incs
         PROVE  ToldOpen(i)' = ToldOpen(i) /\ (ToldOpen(i) => i \in IdsOf(incident))
    BY <1>1 DEF ToldOpen, IsOpen, IdsOf
  <1>11. \A i \in Incs : /\ Leaves("opened", i) \/ Leaves("repeat", i) => ToldOpen(i)
                         /\ Leaves("recovered", i) => i \notin IdsOf(incident)
    BY <1>2 DEF ToldInv, LeftIsTrue
  <1>12. LeftIsTrue'
    <2>1. \A i \in Incs : /\ Leaves("opened", i)' \/ Leaves("repeat", i)' => ToldOpen(i)'
                          /\ Leaves("recovered", i)' => i \notin IdsOf(incident')
      BY <1>1, <1>7, <1>8, <1>10, <1>11
    <2> QED BY <2>1 DEF LeftIsTrue
  <1>13. HeldIsUnnamed'
    BY <1>1, <1>2, <1>6 DEF HeldIsUnnamed, ToldInv
  <1>14. ToldAsOpen'
    <2> SUFFICES ASSUME crashes = 0, NEW i \in Incs
                 PROVE  /\ ToldOpen(i)' => Handed("opened", i)' \/ Leaves("opened", i)'
                        /\ Handed("opened", i)' => ToldOpen(i)' \/ Handed("recovered", i)' \/ Leaves("recovered", i)'
                        /\ Handed("recovered", i)' \/ Leaves("recovered", i)' => Handed("opened", i)'
                        /\ Handed("recovered", i)' => i \notin IdsOf(incident')
      BY <1>1 DEF ToldAsOpen
    <2>1. /\ ToldOpen(i) => Handed("opened", i) \/ Leaves("opened", i)
          /\ Handed("opened", i) => ToldOpen(i) \/ Handed("recovered", i) \/ Leaves("recovered", i)
          /\ Handed("recovered", i) \/ Leaves("recovered", i) => Handed("opened", i)
          /\ Handed("recovered", i) => i \notin IdsOf(incident)
      BY <1>2 DEF ToldInv, ToldAsOpen
    <2> QED BY <1>1, <1>7, <1>8, <1>10, <1>11, <2>1
  <1>15. ASSUME faults = 0
         PROVE  /\ file = incident
                /\ \A r \in Rules : IsOpen(r) /\ ~incident[r].notified => ~Handed("opened", incident[r].id)
                /\ \A i \in Incs : Leaves("opened", i) => ~Handed("opened", i)
                /\ \A m, n \in 1..Len(out) :
                      Opens(out[m].ev) /\ Opens(out[n].ev) /\ out[m].ev.inc = out[n].ev.inc => m = n
    BY <1>1, <1>2, <1>15 DEF ToldInv, OpensOnce
  <1>16. OpensOnce'
    <2> SUFFICES ASSUME faults = 0 PROVE OpensOnce'
      BY <1>1 DEF OpensOnce
    <2>1. \A r \in Rules : incident'[r] # None /\ ~incident'[r].notified
                              => ~Handed("opened", incident[r].id)'
      <3> SUFFICES ASSUME NEW r \in Rules, IsOpen(r), ~incident[r].notified
                   PROVE  ~Handed("opened", incident[r].id)'
        BY <1>1 DEF IsOpen
      <3>1. PICK i \in Incs : i = incident[r].id
        BY DEF AlertingInv, TrackerTypes, Incident, IsOpen
      <3>2. ~Handed("opened", i)
        BY <1>15, <3>1
      <3>3. ~ToldOpen(i)
        BY <1>2, <3>1 DEF ToldInv, OneId, ToldOpen, IsOpen
      <3>4. ~Handed("opened", i)'
        BY <1>7, <1>8, <1>11, <3>2, <3>3
      <3>5. Handed("opened", incident[r].id)' = Handed("opened", i)'
        BY <1>1, <3>1 DEF Handed
      <3> QED BY <3>4, <3>5
    <2>2. ASSUME NEW i \in Incs, Leaves("opened", i)'
          PROVE  ~Handed("opened", i)'
      <3>1. Leaves("opened", i) /\ ~Handed("opened", i)
        BY <1>7, <1>8, <1>15, <2>2
      <3>2. PICK n \in 1..Len(Left') : Left'[n].ev.kind = "opened" /\ Left'[n].ev.inc = i
        BY <2>2 DEF Leaves
      <3>3. ~(e.kind = "opened" /\ e.inc = i)
        BY <1>3, <1>4, <1>6, <1>15, <3>2 DEF Opens
      <3> QED BY <1>7, <1>8, <3>1, <3>3
    <2>3. \A m, n \in 1..Len(Left') :
             Opens(Left'[m].ev) /\ Opens(Left'[n].ev) /\ Left'[m].ev.inc = Left'[n].ev.inc => m = n
      <3> SUFFICES ASSUME NEW m \in 1..Len(Left'), NEW n \in 1..Len(Left'), Opens(Left'[m].ev),
                          Opens(Left'[n].ev), Left'[m].ev.inc = Left'[n].ev.inc
                   PROVE  m = n
        OBVIOUS
      <3>0. /\ Left'[m] = out[m + 1] /\ m + 1 \in 1..Len(out)
            /\ Left'[n] = out[n + 1] /\ n + 1 \in 1..Len(out)
        BY <1>6
      <3>1. m + 1 = n + 1
        BY <1>15, <3>0
      <3> QED BY <3>1
    <2> QED BY <1>1, <1>15, <2>1, <2>2, <2>3 DEF OpensOnce, IsOpen, Opens
  <1>17. OneOpening'
    <2> SUFFICES ASSUME faults = 0, NEW b \in Alerts, NEW c \in Alerts,
                        event'[b] # None, event'[c] # None, event'[b].kind = "opened",
                        event'[c].kind = "opened", event'[b].inc # None, event'[b].inc = event'[c].inc
                 PROVE  b = c
      BY <1>1 DEF OneOpening
    <2>1. OneOpening
      BY <1>2 DEF ToldInv
    <2>2. ASSUME NEW d \in Alerts \ {a}, event[d] # None, event[d].kind = "opened",
                 e.kind = "opened", e.inc # None, event[d].inc = e.inc
          PROVE  FALSE
      <3>1. e.inc \in Incs
        BY <2>2 DEF Event
      <3>2. Handed("opened", e.inc)
        BY <2>2 DEF Handed
      <3>3. Leaves("opened", e.inc)
        BY <1>7, <1>8, <2>2, <3>1
      <3> QED BY <1>15, <3>1, <3>2, <3>3
    <2> QED BY <1>5, <2>1, <2>2 DEF OneOpening
  <1>18. RecoveryOvertakes'
    <2> SUFFICES ASSUME crashes = 0 PROVE RecoveryOvertakes'
      BY <1>1 DEF RecoveryOvertakes
    <2>1. \A x, b \in Alerts :
             /\ SentOrNext(b) => rec[b].status # "none"
             /\ Overtaken(x, b) => /\ rec[b].status # "none" => rec[x].status # "pending"
                                   /\ SentOrNext(b) => x \notin ToSet(worker.batch)
      BY <1>2 DEF ToldInv, RecoveryOvertakes
    <2>2. rec[a].status = "none"
      BY <1>1, <1>2, NoRecordTyped DEF QueueInv, UnusedIsNowhere
    <2>3. ASSUME NEW b \in Alerts
          PROVE  SentOrNext(b)' = SentOrNext(b)
      BY <1>1 DEF SentOrNext
    <2>4. \A b \in Alerts \ {a} : \/ rec'[b] = rec[b]
                                  \/ rec[b].status = "pending" /\ rec'[b].status = "superseded"
      BY <1>1 DEF Supersedes, Pending
    <2>5. ~SentOrNext(a)
      BY <2>1, <2>2
    <2>6. ASSUME NEW x \in Alerts, NEW b \in Alerts, Overtaken(x, b)', x # a, b # a
          PROVE  /\ rec'[b].status # "none" => rec'[x].status # "pending"
                 /\ SentOrNext(b) => x \notin ToSet(worker.batch)
      <3>1. Overtaken(x, b)
        BY <1>5, <2>6 DEF Overtaken
      <3> QED BY <2>1, <2>4, <2>6, <3>1
    <2>7. ASSUME NEW x \in Alerts, Overtaken(x, a)'
          PROVE  rec'[a].status # "none" => rec'[x].status # "pending"
      <3>1. /\ e.kind = "recovered" /\ x # a /\ event[x] # None /\ event[x].inc = e.inc
            /\ event[x].kind \in {"opened", "repeat"} /\ e.inc # None
        BY <1>5, <2>7 DEF Overtaken
      <3>2. ~Head(out).held
        <4>1. Head(out) = out[1]
          BY <1>1, <1>2, TailFacts
        <4> QED BY <1>1, <1>2, <1>3, <1>6, <3>1, <4>1 DEF ToldInv, HeldIsUnnamed
      <3>3. rec[x].status = "pending" => Supersedes(e, x)
        BY <1>2, <3>1 DEF Supersedes, Pending, Known, QueueInv, PendingIsKnown
      <3>4. Supersedes(e, x) \/ rec[x].status # "pending"
        BY <3>3
      <3>5. CASE rec' = rec
        BY <2>2, <3>5
      <3>6. CASE IF Supersedes(e, x) THEN rec'[x].status = "superseded" ELSE rec'[x] = rec[x]
        BY <3>4, <3>6
      <3> QED BY <1>1, <1>3, <3>1, <3>2, <3>5, <3>6
    <2>8. ASSUME NEW b \in Alerts, Overtaken(a, b)'
          PROVE  FALSE
      <3>1. /\ e.kind \in {"opened", "repeat"} /\ b # a /\ event[b] # None /\ event[b].inc = e.inc
            /\ event[b].kind = "recovered" /\ e.inc # None
        BY <1>5, <2>8 DEF Overtaken
      <3>2. e.inc \in Incs
        BY <3>1 DEF Event
      <3>3. ToldOpen(e.inc)
        BY <1>7, <1>8, <1>11, <3>1, <3>2
      <3>4. Handed("recovered", e.inc)
        BY <3>1 DEF Handed
      <3>5. e.inc \notin IdsOf(incident)
        BY <1>2, <3>2, <3>4 DEF ToldInv, ToldAsOpen
      <3> QED BY <1>10, <3>2, <3>3, <3>5
    <2>9. \A b \in Alerts : SentOrNext(b) => rec'[b].status # "none"
      BY <2>1, <2>4, <2>5
    <2>10. ASSUME NEW x \in Alerts, NEW b \in Alerts
           PROVE  /\ SentOrNext(b)' => rec'[b].status # "none"
                  /\ Overtaken(x, b)' => /\ rec'[b].status # "none" => rec'[x].status # "pending"
                                         /\ SentOrNext(b)' => x \notin ToSet(worker.batch)
      BY <2>3, <2>5, <2>6, <2>7, <2>8, <2>9
    <2>11. ToSet(worker'.batch) = ToSet(worker.batch)
      BY <1>1
    <2> QED BY <2>10, <2>11 DEF RecoveryOvertakes
  <1> QED BY <1>1, <1>9, <1>12, <1>13, <1>14, <1>16, <1>17, <1>18 DEF ToldInv

-----------------------------------------------------------------------------
(* The other steps                                                         *)

(* What changes neither incidents nor what is told and left keeps both;    *)
(* what is queued and sent is the caller's to show.                        *)
LEMMA ToldStays ==
    ASSUME ToldInv, UNCHANGED <<incident, file, event, crashes>>, Left' = Left,
           SenderHoldsHead', RecoveryOvertakes', faults' = 0 => faults = 0
    PROVE  ToldInv'
  <1> USE DEF ToldInv
  <1>1. OneId(incident)' /\ OneId(file)'
    BY DEF OneId
  <1>2. LeftIsTrue'
    BY DEF LeftIsTrue, Leaves, ToldOpen, IsOpen, IdsOf
  <1>3. HeldIsUnnamed'
    BY DEF HeldIsUnnamed
  <1>4. ASSUME NEW i \in Incs, NEW k \in Kind
        PROVE  Handed(k, i)' = Handed(k, i) /\ Leaves(k, i)' = Leaves(k, i)
    BY DEF Handed, Leaves
  <1>5. ASSUME NEW i \in Incs
        PROVE  ToldOpen(i)' = ToldOpen(i) /\ IdsOf(incident)' = IdsOf(incident)
    BY DEF ToldOpen, IsOpen, IdsOf
  <1>6. "opened" \in Kind /\ "recovered" \in Kind
    BY DEF Kind
  <1>7. ToldAsOpen'
    <2> SUFFICES ASSUME crashes = 0, NEW i \in Incs
                 PROVE  /\ ToldOpen(i)' => Handed("opened", i)' \/ Leaves("opened", i)'
                        /\ Handed("opened", i)' => ToldOpen(i)' \/ Handed("recovered", i)' \/ Leaves("recovered", i)'
                        /\ Handed("recovered", i)' \/ Leaves("recovered", i)' => Handed("opened", i)'
                        /\ Handed("recovered", i)' => i \notin IdsOf(incident)'
      BY DEF ToldAsOpen
    <2>1. /\ ToldOpen(i) => Handed("opened", i) \/ Leaves("opened", i)
          /\ Handed("opened", i) => ToldOpen(i) \/ Handed("recovered", i) \/ Leaves("recovered", i)
          /\ Handed("recovered", i) \/ Leaves("recovered", i) => Handed("opened", i)
          /\ Handed("recovered", i) => i \notin IdsOf(incident)
      BY DEF ToldAsOpen
    <2> QED BY <1>4, <1>5, <1>6, <2>1
  <1>8. OpensOnce'
    BY DEF OpensOnce, Handed, Leaves, IsOpen, Opens
  <1>9. OneOpening'
    BY DEF OneOpening
  <1> QED BY <1>1, <1>2, <1>3, <1>7, <1>8, <1>9

(* A line of the sender: when it was the last, the alert has been handed   *)
(* over.                                                                   *)
LEMMA SenderTells ==
    ASSUME AlertingInv, SenderStep
    PROVE  AlertingInv'
  <1>1. /\ QueueInv /\ ToldInv /\ TrackerTypes /\ crashes \in Nat /\ crashes' = crashes
        /\ (\E b \in Alerts : PersistSuperseded(b)) \/ PersistNew
    BY DEF AlertingInv, SenderStep
  <1>2. /\ QueueInv' /\ faults' >= faults /\ UNCHANGED <<event, rec, worker, sends>> /\ sender # NoSend
    BY <1>1, SenderKeeps
  <1>3. out # << >> /\ sender.new # None /\ Left = Tail(out) /\ out \in Seq(Parcel)
    BY <1>1, <1>2 DEF ToldInv, SenderHoldsHead, Left, TrackerTypes, Parcel
  <1>4. faults' = 0 => faults = 0
    BY <1>1, <1>2 DEF QueueInv
  <1>5. Tail(out) \in Seq(Parcel)
    BY <1>3, TailFacts
  <1>6. /\ incident' = incident /\ file' = file /\ streak' = streak /\ held' = held
        /\ firstRun' = firstRun /\ adopting' = adopting
        /\ \/ out' = out /\ sender'.new = sender.new
           \/ out' = Tail(out) /\ sender' = NoSend
    <2>1. CASE (\E b \in Alerts : PersistSuperseded(b)) /\ UNCHANGED trackerVars
      BY <1>1, <2>1, SenderKeeps DEF trackerVars
    <2>2. CASE PersistNew /\ HandedOver
      BY <2>2 DEF PersistNew, HandedOver
    <2> QED BY <2>1, <2>2 DEF SenderStep
  <1>7. Left' = Left
    <2>1. NoSend.new = None
      BY DEF NoSend
    <2> QED BY <1>3, <1>6, <2>1 DEF Left
  <1>8. SenderHoldsHead'
    BY <1>3, <1>6 DEF SenderHoldsHead
  <1>9. RecoveryOvertakes'
    BY <1>1, <1>2 DEF ToldInv, RecoveryOvertakes, SentOrNext, Overtaken
  <1>10. TrackerTypes'
    BY <1>1, <1>5, <1>6 DEF TrackerTypes, Parcel
  <1>11. ToldInv'
    BY <1>1, <1>2, <1>4, <1>6, <1>7, <1>8, <1>9, ToldStays
  <1> QED BY <1>1, <1>2, <1>10, <1>11 DEF AlertingInv

(* The worker sends nothing a queued recovery overtook.                    *)
LEMMA DeliveryTells ==
    ASSUME AlertingInv, Delivery
    PROVE  AlertingInv'
  <1>1. /\ QueueInv /\ ToldInv /\ TrackerTypes /\ crashes \in Nat /\ crashes' = crashes
        /\ WorkerStep /\ UNCHANGED trackerVars
    BY DEF AlertingInv, Delivery
  <1>2. event' = event /\ sender' = sender /\ faults \in Nat
    BY <1>1 DEF WorkerStep, DeliverDue, BeginUnreadable, Conclude, PersistOutcome, BeginAttempt, SendLeg,
                recordVars, QueueInv
  <1> DEFINE Delivered ==
                /\ QueueInv' /\ faults' >= faults
                /\ \A b \in Alerts : \/ rec'[b] = rec[b]
                                     \/ (rec[b].status = "pending" /\ rec'[b].status # "none")
                /\ \/ ToSet(worker'.batch) \subseteq ToSet(worker.batch)
                   \/ ToSet(worker'.batch) \subseteq {a \in Alerts : Pending(a)} /\ rec' = rec
                /\ \A b \in Alerts : (\E c \in Channels : sends'[c][b] > 0) => SentOrNext(b)
  <1>3. Delivered
    <2>0. \A n \in Nat : n >= n
      OBVIOUS
    <2>1. CASE DeliverDue
      <3>1. QueueInv' /\ ToSet(worker'.batch) \subseteq {a \in Alerts : Pending(a)}
        BY <1>1, <2>1, DueKeeps
      <3>2. rec' = rec /\ sends' = sends /\ faults' = faults
        BY <2>1 DEF DeliverDue, recordVars
      <3> QED BY <1>2, <2>0, <3>1, <3>2 DEF SentOrNext
    <2>2. CASE BeginUnreadable \/ \E configured \in SUBSET Channels : BeginAttempt(configured)
      <3>1. QueueInv' /\ worker'.batch = worker.batch
        BY <1>1, <2>2, BeginKeeps
      <3>2. rec' = rec /\ sends' = sends /\ faults' = faults
        BY <2>2 DEF BeginUnreadable, BeginAttempt, recordVars
      <3> QED BY <1>2, <2>0, <3>1, <3>2 DEF SentOrNext
    <2>3. ASSUME NEW c \in Channels, SendLeg(c) PROVE Delivered
      <3>1. /\ QueueInv' /\ worker'.batch = worker.batch /\ worker.pc = "send"
            /\ \A d \in Channels, a \in Alerts :
                  sends'[d][a] # sends[d][a] => d = c /\ a = Current /\ sends'[d][a] = sends[d][a] + 1
        BY <1>1, <2>3, LegKeeps
      <3>2. rec' = rec /\ faults' = faults
        BY <2>3 DEF SendLeg, recordVars
      <3>3. Current \in ToSet(worker.batch)
        BY <1>1, <3>1, CurrentIs
      <3>4. \A b \in Alerts : (\E d \in Channels : sends'[d][b] > 0) => SentOrNext(b)
        BY <3>1, <3>3 DEF SentOrNext
      <3> QED BY <1>2, <2>0, <3>1, <3>2, <3>4
    <2>4. CASE Conclude
      <3>1. /\ QueueInv' /\ ToSet(worker'.batch) \subseteq ToSet(worker.batch)
            /\ \A b \in Alerts : \/ rec'[b] = rec[b]
                                 \/ (rec[b].status = "pending" /\ rec'[b].status # "none")
        BY <1>1, <2>4, ConcludeKeeps
      <3>2. sends' = sends /\ faults' = faults
        BY <2>4 DEF Conclude
      <3> QED BY <1>2, <2>0, <3>1, <3>2 DEF SentOrNext
    <2>5. CASE PersistOutcome
      <3>1. /\ QueueInv' /\ ToSet(worker'.batch) \subseteq ToSet(worker.batch) /\ faults' >= faults
            /\ UNCHANGED <<event, rec, sender, sends>>
        BY <1>1, <2>5, OutcomeKeeps
      <3> QED BY <3>1 DEF SentOrNext
    <2> QED BY <1>1, <2>1, <2>2, <2>3, <2>4, <2>5 DEF WorkerStep
  <1>4. /\ incident' = incident /\ file' = file /\ out' = out /\ streak' = streak /\ held' = held
        /\ firstRun' = firstRun /\ adopting' = adopting
    BY <1>1 DEF trackerVars
  <1>5. Left' = Left /\ SenderHoldsHead'
    BY <1>1, <1>2, <1>4 DEF Left, SenderHoldsHead, ToldInv
  <1>6. RecoveryOvertakes'
    <2> SUFFICES ASSUME crashes = 0 PROVE RecoveryOvertakes'
      BY <1>1 DEF RecoveryOvertakes
    <2>1. \A x, b \in Alerts :
             /\ SentOrNext(b) => rec[b].status # "none"
             /\ Overtaken(x, b) => /\ rec[b].status # "none" => rec[x].status # "pending"
                                   /\ SentOrNext(b) => x \notin ToSet(worker.batch)
      BY <1>1 DEF ToldInv, RecoveryOvertakes
    <2>2. ASSUME NEW b \in Alerts, SentOrNext(b)'
          PROVE  rec[b].status # "none" /\ (SentOrNext(b) \/ rec' = rec)
      <3>1. SentOrNext(b) \/ (b \in ToSet(worker'.batch) /\ Pending(b) /\ rec' = rec)
        BY <1>3, <2>2 DEF SentOrNext
      <3> QED BY <2>1, <3>1 DEF Pending
    <2>3. \A b \in Alerts : /\ rec'[b].status # "none" <=> rec[b].status # "none"
                            /\ rec'[b].status = "pending" => rec[b].status = "pending"
      BY <1>3
    <2>4. ASSUME NEW x \in Alerts, NEW b \in Alerts, Overtaken(x, b)'
          PROVE  /\ rec'[b].status # "none" => rec'[x].status # "pending"
                 /\ SentOrNext(b)' => x \notin ToSet(worker'.batch)
      <3>1. Overtaken(x, b)
        BY <1>2, <2>4 DEF Overtaken
      <3>2. rec[b].status # "none" => rec[x].status # "pending"
        BY <2>1, <3>1
      <3>3. ASSUME SentOrNext(b)', x \in ToSet(worker'.batch) PROVE FALSE
        <4>1. ~Pending(x)
          BY <2>2, <3>2, <3>3 DEF Pending
        <4>2. x \in ToSet(worker.batch) /\ ToSet(worker'.batch) \subseteq ToSet(worker.batch)
          BY <1>3, <3>3, <4>1
        <4>3. SentOrNext(b)
          BY <1>3, <3>3, <4>2 DEF SentOrNext
        <4> QED BY <2>1, <3>1, <4>2, <4>3
      <3> QED BY <2>3, <3>2, <3>3
    <2>5. ASSUME NEW b \in Alerts PROVE SentOrNext(b)' => rec'[b].status # "none"
      BY <2>2, <2>3
    <2> QED BY <2>4, <2>5 DEF RecoveryOvertakes
  <1>7. faults' = 0 => faults = 0
    BY <1>2, <1>3 DEF QueueInv
  <1>8. TrackerTypes'
    BY <1>1, <1>4 DEF TrackerTypes
  <1>9. ToldInv'
    BY <1>1, <1>2, <1>4, <1>5, <1>6, <1>7, ToldStays
  <1> QED BY <1>1, <1>3, <1>8, <1>9 DEF AlertingInv

(* A restart reads both files.                                             *)
LEMMA RestartKeeps ==
    ASSUME AlertingInv, CrashAndRestart
    PROVE  AlertingInv'
  <1>1. /\ QueueInv /\ ToldInv /\ TrackerTypes /\ crashes \in Nat /\ crashes' = crashes + 1
        /\ LoadIncidents /\ Load /\ faults' = faults
    BY DEF AlertingInv, CrashAndRestart
  <1>2. QueueInv'
    BY <1>1, LoadKeeps
  <1>3. /\ streak' = [r \in Rules |-> NoStreak] /\ held' = {} /\ incident' = file
        /\ adopting' = firstRun /\ out' = << >> /\ file' = file /\ firstRun' = firstRun
        /\ sender' = NoSend /\ event' = event
    BY <1>1 DEF LoadIncidents, Load
  <1>4. TrackerTypes'
    <2>1. streak' \in [Rules -> Streak]
      BY <1>1, <1>3, StreakTyped
    <2>2. out' \in Seq([ev: Event, held: BOOLEAN])
      BY <1>3, NoneTold DEF Parcel
    <2> QED BY <1>1, <1>3, <2>1, <2>2 DEF TrackerTypes
  <1>5. Left' = << >> /\ Len(Left') = 0
    BY <1>3 DEF Left
  <1>6. \A k \in Kind : \A i \in Incs : ~Leaves(k, i)'
    BY <1>5 DEF Leaves
  <1>7. SenderHoldsHead' /\ LeftIsTrue' /\ HeldIsUnnamed'
    <2>1. "opened" \in Kind /\ "repeat" \in Kind /\ "recovered" \in Kind
      BY DEF Kind
    <2> QED BY <1>3, <1>5, <1>6, <2>1 DEF SenderHoldsHead, LeftIsTrue, HeldIsUnnamed
  <1>8. crashes' # 0
    BY <1>1
  <1>9. ToldAsOpen' /\ RecoveryOvertakes'
    BY <1>8 DEF ToldAsOpen, RecoveryOvertakes
  <1>10. OneId(incident)' /\ OneId(file)'
    BY <1>1, <1>3 DEF ToldInv, OneId
  <1>11. OneOpening'
    BY <1>1, <1>3 DEF ToldInv, OneOpening
  <1>12. OpensOnce'
    <2> SUFFICES ASSUME faults = 0 PROVE OpensOnce'
      BY <1>1 DEF OpensOnce
    <2>1. incident' = incident /\ file' = incident'
      BY <1>1, <1>3 DEF ToldInv, OpensOnce
    <2>2. \A i \in Incs : ~Leaves("opened", i)'
      BY <1>6 DEF Kind
    <2>3. ASSUME NEW r \in Rules
          PROVE  Handed("opened", incident[r].id)' = Handed("opened", incident[r].id)
      BY <1>3, <2>1 DEF Handed
    <2>4. \A r \in Rules : incident[r] # None /\ ~incident[r].notified => ~Handed("opened", incident[r].id)
      BY <1>1 DEF ToldInv, OpensOnce, IsOpen
    <2> QED BY <1>5, <2>1, <2>2, <2>3, <2>4 DEF OpensOnce, IsOpen
  <1>13. ToldInv'
    BY <1>7, <1>9, <1>10, <1>11, <1>12 DEF ToldInv
  <1> QED BY <1>1, <1>2, <1>4, <1>13 DEF AlertingInv

-----------------------------------------------------------------------------
(* The theorems                                                            *)

(* The invariant holds at the start.                                       *)
LEMMA AlertingStarts == Init => AlertingInv
  <1> SUFFICES ASSUME Init PROVE AlertingInv
    OBVIOUS
  <1>1. /\ event = [a \in Alerts |-> None] /\ rec = [a \in Alerts |-> NoRecord] /\ order = << >>
        /\ jlast = [a \in Alerts |-> NoRecord] /\ jorder = << >> /\ sender = NoSend /\ worker = Resting
        /\ sends = [c \in Channels |-> [a \in Alerts |-> 0]] /\ faults = 0 /\ crashes = 0
        /\ streak = [r \in Rules |-> NoStreak] /\ held = {} /\ incident = [r \in Rules |-> None]
        /\ file = [r \in Rules |-> None] /\ adopting = firstRun /\ out = << >>
    BY DEF Init, TrackerInit, OutboxInit
  <1>2. firstRun \in BOOLEAN
    BY DEF Init, TrackerInit
  <1>3. /\ worker \in WorkerState /\ worker.batch = << >> /\ worker.todo = {} /\ worker.pc = "idle"
        /\ worker.snap = NoRecord /\ worker.verdict = [c \in Channels |-> "none"]
    BY <1>1, RestingIs, Zenon DEF Resting
  <1>4. ToSet(order) = {} /\ ToSet(jorder) = {} /\ ToSet(worker.batch) = {}
    BY <1>1, <1>3 DEF ToSet
  <1>5. sender \in [new: Alerts \cup {None}, sup: SUBSET Alerts] /\ sender.new = None /\ sender.sup = {}
    BY <1>1 DEF NoSend
  <1>6. OutboxTypes
    BY <1>1, <1>3, <1>5, NoRecordTyped DEF OutboxTypes
  <1>7. \A a \in Alerts : event[a] = None /\ rec[a] = NoRecord /\ jlast[a] = NoRecord /\ a # None
    BY <1>1, OutboxConstants
  <1>8. QueueInv
    <2>1. WorkerInOrder /\ AllRetried /\ SnapIsRecord /\ TodoIsOwed
      BY <1>3, <1>7, NoRecordTyped DEF WorkerInOrder, AllRetried, Retried, SnapIsRecord, TodoIsOwed
    <2>2. UnusedIsNowhere
      BY <1>4, <1>5, <1>7 DEF UnusedIsNowhere
    <2>3. PendingIsKnown /\ PendingIsDurable /\ AckedIsKnown
      BY <1>7, NoRecordTyped DEF PendingIsKnown, PendingIsDurable, AckedIsKnown
    <2> QED BY <1>1, <1>6, <2>1, <2>2, <2>3 DEF QueueInv
  <1>9. TrackerTypes
    <2>1. NoStreak \in Streak
      BY TrackerConstants DEF NoStreak, Streak
    <2>2. out \in Seq([ev: Event, held: BOOLEAN])
      BY <1>1, NoneTold DEF Parcel
    <2> QED BY <1>1, <1>2, <2>1, <2>2 DEF TrackerTypes
  <1>10. ToldInv
    <2>1. Left = << >> /\ Len(Left) = 0 /\ \A r \in Rules : incident[r] = None /\ file[r] = None
      BY <1>1 DEF Left
    <2>2. SenderHoldsHead /\ OneId(incident) /\ OneId(file) /\ LeftIsTrue /\ HeldIsUnnamed
      BY <1>1, <2>1 DEF SenderHoldsHead, OneId, LeftIsTrue, HeldIsUnnamed, Leaves
    <2>3. \A k \in Kind : \A i \in Incs : ~Handed(k, i) /\ ~Leaves(k, i) /\ ~ToldOpen(i)
      BY <1>7, <2>1 DEF Handed, Leaves, ToldOpen, IsOpen
    <2>4. "opened" \in Kind /\ "recovered" \in Kind
      BY DEF Kind
    <2>5. ToldAsOpen
      BY <2>3, <2>4 DEF ToldAsOpen
    <2>6. OpensOnce
      BY <1>1, <2>1, <2>3, <2>4 DEF OpensOnce, IsOpen
    <2>7. OneOpening
      BY <1>7 DEF OneOpening
    <2>8. RecoveryOvertakes
      <3>1. \A b \in Alerts : ~SentOrNext(b)
        BY <1>1, <1>4 DEF SentOrNext
      <3> QED BY <1>7, <3>1 DEF RecoveryOvertakes, Overtaken
    <2> QED BY <2>2, <2>5, <2>6, <2>7, <2>8 DEF ToldInv
  <1> QED BY <1>1, <1>8, <1>9, <1>10 DEF AlertingInv

(* Every step keeps it.                                                    *)
LEMMA AlertingStep == AlertingInv /\ [Next]_alertingVars => AlertingInv'
  <1> SUFFICES ASSUME AlertingInv, [Next]_alertingVars PROVE AlertingInv'
    OBVIOUS
  <1>0. QueueInv /\ ToldInv /\ TrackerTypes /\ crashes \in Nat /\ faults \in Nat
    BY DEF AlertingInv, QueueInv
  <1>1. CASE TrackerStep
    <2>1. Effect /\ Unlocked /\ UNCHANGED <<outboxVars, crashes>>
      BY <1>0, <1>1, TrackerMoves DEF ToldInv
    <2>2. ToldInv'
      BY <1>0, <2>1, TrackerTells DEF Effect
    <2>3. QueueInv'
      BY <1>0, <2>1, QueueStays DEF Effect, Saves
    <2> QED BY <1>0, <2>1, <2>2, <2>3 DEF AlertingInv, Effect
  <1>2. ASSUME NEW a \in Alerts, HandOver(a) PROVE AlertingInv'
    BY <1>0, <1>2, HandOverEffect, HandOverTells DEF AlertingInv
  <1>3. CASE SenderStep
    BY <1>3, SenderTells
  <1>4. CASE Delivery
    BY <1>4, DeliveryTells
  <1>5. CASE CrashAndRestart
    BY <1>5, RestartKeeps
  <1>6. CASE UNCHANGED alertingVars
    <2>1. /\ UNCHANGED <<incident, file, event, crashes, faults, rec, worker, sends, sender, out>>
          /\ UNCHANGED <<streak, held, firstRun, adopting>> /\ UNCHANGED outboxVars
      BY <1>6 DEF alertingVars, trackerVars, outboxVars, recordVars, journalVars
    <2>2. Left' = Left /\ SenderHoldsHead' /\ RecoveryOvertakes'
      BY <1>0, <2>1 DEF Left, SenderHoldsHead, RecoveryOvertakes, SentOrNext, Overtaken, ToldInv
    <2>3. ToldInv'
      BY <1>0, <2>1, <2>2, ToldStays
    <2>4. QueueInv'
      BY <1>0, <2>1, QueueStays
    <2>5. TrackerTypes'
      BY <1>0, <2>1 DEF TrackerTypes
    <2> QED BY <1>0, <2>1, <2>3, <2>4, <2>5 DEF AlertingInv
  <1> QED BY <1>1, <1>2, <1>3, <1>4, <1>5, <1>6 DEF Next

(* Tracker, queue and journal stay in step in every behaviour.             *)
THEOREM AlertingInvariance == Spec => []AlertingInv
  BY AlertingStarts, AlertingStep, PTL DEF Spec

(* Incidents, records, journal lines and requests are of their kinds, and  *)
(* no record counts more than MaxAttempts rounds (outbox.go).              *)
THEOREM AlertingIsTyped == Spec => []TypeOK
  <1>1. AlertingInv => TypeOK
    BY DEF AlertingInv, TypeOK, TrackerTypes, QueueInv, OutboxTypes
  <1> QED BY <1>1, AlertingInvariance, PTL

(* Undelivered work is kept: a pending alert stays queued and, once its    *)
(* line was written, pending in the journal, through compactions and       *)
(* restarts (persistLocked, compactLocked, load).                          *)
THEOREM UndeliveredIsKept == Spec => []PendingIsDurable
  <1>1. AlertingInv => PendingIsDurable
    BY DEF AlertingInv, QueueInv
  <1> QED BY <1>1, AlertingInvariance, PTL

(* Receivers are told of an incident in order: one opening, also across    *)
(* restarts, and a recovery only after it, whichever path opened or        *)
(* announced the incident (incident.go).                                   *)
THEOREM ReceiversAreToldInOrder == Spec => []ToldInOrder
  <1>1. AlertingInv => ToldInOrder
    BY DEF AlertingInv, ToldInv, ToldInOrder, RecoveryFollowsOpening, ToldAsOpen
  <1> QED BY <1>1, AlertingInvariance, PTL

(* No receiver keeps a stale card: what was opened to it is open, or its   *)
(* recovery was handed over (incident.go).                                 *)
THEOREM NoStaleCard == Spec => []ClosedIsTold
  <1>1. ASSUME AlertingInv PROVE ClosedIsTold
    <2> SUFFICES ASSUME crashes = 0, Unlocked, NEW i \in Incs, Handed("opened", i)
                 PROVE  Handed("recovered", i) \/ \E r \in Rules : IsOpen(r) /\ incident[r].id = i
      BY DEF ClosedIsTold
    <2>1. Left = << >> /\ Len(Left) = 0
      BY <1>1 DEF AlertingInv, ToldInv, SenderHoldsHead, Unlocked, Left
    <2>2. ~Leaves("recovered", i)
      BY <2>1 DEF Leaves
    <2>3. ToldOpen(i) \/ Handed("recovered", i)
      BY <1>1, <2>2 DEF AlertingInv, ToldInv, ToldAsOpen
    <2> QED BY <2>3 DEF ToldOpen
  <1> QED BY <1>1, AlertingInvariance, PTL

(* Only a round of the worker makes a request: of the record it holds, on  *)
(* a leg it still owes.                                                    *)
LEMMA RequestIsOwed ==
    ASSUME AlertingInv, [Next]_alertingVars, NEW c \in Channels, NEW a \in Alerts,
           sends'[c][a] # sends[c][a]
    PROVE  a \in ToSet(worker.batch) /\ rec[a].legs[c] # "delivered"
  <1>1. QueueInv
    BY DEF AlertingInv
  <1>2. sends' = sends \/ \E d \in Channels : SendLeg(d)
    <2>1. TrackerStep \/ SenderStep \/ UNCHANGED alertingVars => sends' = sends
      BY DEF TrackerStep, SenderStep, PersistSuperseded, PersistNew, alertingVars, outboxVars
    <2>2. ASSUME NEW b \in Alerts, HandOver(b) PROVE sends' = sends
      BY <2>2 DEF HandOver, Send, RecordSuppressed
    <2>3. CrashAndRestart => sends' = sends
      BY DEF CrashAndRestart, Load
    <2>4. Delivery => sends' = sends \/ \E d \in Channels : SendLeg(d)
      BY DEF Delivery, WorkerStep, DeliverDue, BeginUnreadable, BeginAttempt, Conclude, PersistOutcome
    <2> QED BY <2>1, <2>2, <2>3, <2>4 DEF Next
  <1>3. PICK d \in Channels : SendLeg(d)
    BY <1>2
  <1>4. d = c /\ a = Current /\ worker.pc = "send" /\ c \in worker.todo
    BY <1>1, <1>3, LegKeeps
  <1>5. Current \in ToSet(worker.batch)
    BY <1>1, <1>4, CurrentIs
  <1>6. rec[Current].legs[c] # "delivered"
    BY <1>1, <1>4 DEF QueueInv, TodoIsOwed
  <1> QED BY <1>4, <1>5, <1>6

(* A retried opening never reaches a receiver after its own recovery, as   *)
(* long as the process runs (outbox.go, StatusSuperseded).                 *)
THEOREM OpeningsComeFirst == Spec => OpeningBeforeRecovery
  <1>1. ASSUME AlertingInv, [Next]_alertingVars
        PROVE  [crashes = 0 => \A c \in Channels, a \in Alerts : ~LateOpening(c, a)]_sends
    <2> SUFFICES ASSUME crashes = 0, NEW c \in Channels, NEW a \in Alerts, LateOpening(c, a)
                 PROVE  FALSE
      OBVIOUS
    <2>1. PICK b \in Alerts : Overtaken(a, b) /\ sends[c][b] > 0
      BY DEF LateOpening, Overtaken
    <2>2. sends'[c][a] # sends[c][a]
      <3>1. sends[c][a] \in Nat
        BY <1>1 DEF AlertingInv, QueueInv, OutboxTypes
      <3> QED BY <3>1 DEF LateOpening
    <2>3. a \in ToSet(worker.batch)
      BY <1>1, <2>2, RequestIsOwed
    <2>4. SentOrNext(b)
      BY <2>1 DEF SentOrNext
    <2> QED BY <1>1, <2>1, <2>3, <2>4 DEF AlertingInv, ToldInv, RecoveryOvertakes
  <1> QED BY <1>1, AlertingInvariance, PTL DEF Spec, OpeningBeforeRecovery

(* A leg whose acknowledgment reached the journal is not sent again, by a  *)
(* retry, after a restart, or under another configuration (attempt, load). *)
THEOREM AckedLegsAreDone == Spec => AckedLegIsDone
  <1>1. ASSUME AlertingInv, [Next]_alertingVars
        PROVE  [\A c \in Channels, a \in Alerts :
                   jlast[a].legs[c] = "delivered" => sends'[c][a] = sends[c][a]]_sends
    <2> SUFFICES ASSUME NEW c \in Channels, NEW a \in Alerts, jlast[a].legs[c] = "delivered",
                        sends'[c][a] # sends[c][a]
                 PROVE  FALSE
      OBVIOUS
    <2>1. rec[a].legs[c] = "delivered"
      BY <1>1 DEF AlertingInv, QueueInv, AckedIsKnown
    <2> QED BY <1>1, <2>1, RequestIsOwed
  <1> QED BY <1>1, AlertingInvariance, PTL DEF Spec, AckedLegIsDone
=============================================================================
