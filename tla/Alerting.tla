------------------------------ MODULE Alerting ------------------------------
(***************************************************************************)
(* The incident tracker handing its alerts to the outbox: observations on  *)
(* one side, requests to receivers on the other, with the process ending   *)
(* and starting again in between.                                          *)
(***************************************************************************)
EXTENDS IncidentTracker, Outbox

CONSTANT MaxCrashes   \* bound of the model

ASSUME AlertingConstants == MaxCrashes \in Nat

VARIABLE crashes

alertingVars == <<faults, trackerVars, outboxVars, crashes>>

UsedIds == {event[a].inc : a \in {b \in Alerts : event[b] # None}}

(* Bound of the model: an operation only starts when there is a delivery   *)
(* id left for each alert it hands over.                                   *)
AlertsLeft == Len(out') <= Cardinality({a \in Alerts : event[a] = None})

TrackerStep ==
    /\ Unlocked
    /\ \/ \E r \in Rules :
            \/ FailQuietly(r) \/ FailRepeats(r) \/ FailHeld(r)
            \/ PassQuietly(r) \/ PassRecovers(r)
            \/ RetireClosed(r) \/ RetireOpen(r)
            \/ \E s \in Streak : Seed(r, s)
            \/ \E i \in NewIds(UsedIds) :
                  \/ r \notin OneShot /\ (AdoptOpen(r, i) \/ AdoptFailing(r, i))
                  \/ \E hasChannels \in BOOLEAN : FailOpens(r, i, hasChannels)
       \/ \E S \in SUBSET Rules :
            \/ CloseMatching(S) \/ Sweep(S)
            \/ \E id \in Injection(S, NewIds(UsedIds)), told \in SUBSET S :
                  ReleaseHolds(S, id, told)
       \/ EndAdoption \/ Announce
    /\ AlertsLeft
    /\ UNCHANGED <<outboxVars, crashes>>

(* flushLocked: the next alert goes to the outbox, the mutex stays held    *)
(* until the call returns.                                                 *)
HandOver(a) ==
    /\ ~Unlocked
    /\ IF Head(out).held THEN RecordSuppressed(a, Head(out).ev)
                         ELSE Send(a, Head(out).ev)
    /\ IF sender' = NoSend THEN HandedOver ELSE UNCHANGED trackerVars
    /\ UNCHANGED crashes

SenderStep ==
    /\ \/ (\E b \in Alerts : PersistSuperseded(b)) /\ UNCHANGED trackerVars
       \/ PersistNew /\ HandedOver
    /\ UNCHANGED crashes

Delivery == WorkerStep /\ UNCHANGED <<trackerVars, crashes>>

(* The process ends anywhere and starts again from its files.              *)
CrashAndRestart ==
    /\ crashes < MaxCrashes
    /\ crashes' = crashes + 1
    /\ LoadIncidents
    /\ Load
    /\ UNCHANGED faults

Init == TrackerInit /\ OutboxInit /\ faults = 0 /\ crashes = 0

Next ==
    \/ TrackerStep
    \/ \E a \in Alerts : HandOver(a)
    \/ SenderStep \/ Delivery \/ CrashAndRestart

Spec == Init /\ [][Next]_alertingVars

(* The behaviours of Spec in which the worker does not run.  The tracker   *)
(* reads nothing of the outbox, so it does all it can do in these.         *)
NextUndelivered ==
    \/ TrackerStep
    \/ \E a \in Alerts : HandOver(a)
    \/ SenderStep \/ CrashAndRestart

SpecUndelivered == Init /\ [][NextUndelivered]_alertingVars

-----------------------------------------------------------------------------
(* Properties                                                              *)

WorkerState == [pc: {"idle", "next", "send", "persist"}, batch: Seq(Alerts),
                route: SUBSET Channels, todo: SUBSET Channels,
                verdict: [Channels -> {"none", "acked", "failed"}], err: BOOLEAN,
                snap: Record]

(* Every variable holds a value of the kind the two components give it;    *)
(* a record is dead-lettered before it counts more than MaxAttempts rounds.*)
TypeOK ==
    /\ faults \in Nat /\ crashes \in Nat
    /\ streak \in [Rules -> Streak]
    /\ held \subseteq Rules
    /\ incident \in [Rules -> Incident \cup {None}]
    /\ file \in [Rules -> Incident \cup {None}]
    /\ firstRun \in BOOLEAN /\ adopting \in BOOLEAN
    /\ out \in Seq([ev: Event, held: BOOLEAN])
    /\ event \in [Alerts -> Event \cup {None}]
    /\ rec \in [Alerts -> Record] /\ jlast \in [Alerts -> Record]
    /\ order \in Seq(Alerts) /\ jorder \in Seq(Alerts)
    /\ sender \in [new: Alerts \cup {None}, sup: SUBSET Alerts]
    /\ worker \in WorkerState
    /\ sends \in [Channels -> [Alerts -> Nat]]

Handed(kind, i) == \E a \in Alerts : event[a] # None /\ event[a].kind = kind /\ event[a].inc = i

(* Without a crash a recovery is handed to the outbox only after the       *)
(* opening of its incident (incident.go: a recovery is sent only when the  *)
(* open was sent), whichever path opened or announced it.                  *)
RecoveryFollowsOpening ==
    crashes = 0 => \A i \in Incs : Handed("recovered", i) => Handed("opened", i)

(* Without a crash, an incident whose opening was handed over is still     *)
(* open, or its recovery was handed over: no receiver keeps a stale card.  *)
ClosedIsTold ==
    crashes = 0 /\ Unlocked =>
        \A i \in Incs : Handed("opened", i) =>
            \/ Handed("recovered", i)
            \/ \E r \in Rules : IsOpen(r) /\ incident[r].id = i

(* An incident is opened to its receivers once, also across restarts, as   *)
(* long as incidents.json could be written.                                *)
OneOpening ==
    faults = 0 => \A a, b \in Alerts :
        /\ event[a] # None /\ event[b] # None
        /\ event[a].kind = "opened" /\ event[b].kind = "opened"
        /\ event[a].inc # None /\ event[a].inc = event[b].inc
        => a = b

(* Both: of each incident one opening, and its recovery only after it.     *)
ToldInOrder == RecoveryFollowsOpening /\ OneOpening

(* What a receiver is sent of an incident after its recovery.              *)
LateOpening(c, a) ==
    /\ event[a] # None /\ event[a].kind \in {"opened", "repeat"} /\ event[a].inc # None
    /\ sends'[c][a] > sends[c][a]
    /\ \E b \in Alerts : /\ event[b] # None /\ event[b].kind = "recovered"
                         /\ event[b].inc = event[a].inc /\ sends[c][b] > 0

(* A retried opening never reaches a receiver after its own recovery, as   *)
(* long as the process runs (outbox.go, StatusSuperseded).                 *)
OpeningBeforeRecovery ==
    [][crashes = 0 => \A c \in Channels, a \in Alerts : ~LateOpening(c, a)]_sends

(* The same across restarts, as the comment states it.                     *)
NeverReopened == [][\A c \in Channels, a \in Alerts : ~LateOpening(c, a)]_sends

(* A leg whose acknowledgment reached the journal is not sent again, by a  *)
(* retry, after a restart, or when the configuration changes.              *)
AckedLegIsDone ==
    [][\A c \in Channels, a \in Alerts :
         jlast[a].legs[c] = "delivered" => sends'[c][a] = sends[c][a]]_sends

(* Undelivered work is kept: an alert that was neither delivered nor given *)
(* up is still in the queue, and once its first line was written it is     *)
(* pending in the journal too, across compactions and restarts.            *)
PendingIsDurable ==
    faults = 0 => \A a \in Alerts :
        rec[a].status = "pending" =>
            /\ Known(a)
            /\ sender.new # a => jlast[a].status = "pending" /\ a \in ToSet(jorder)
=============================================================================
