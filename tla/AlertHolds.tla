----------------------------- MODULE AlertHolds -----------------------------
(***************************************************************************)
(* What holds an app's alerts back (alerting.go): its operation, and its   *)
(* maintenance and lock flags as the fleet cache shows them.  The tracker  *)
(* asks at every failure and once a minute; answering also remembers when  *)
(* a flag was first and last seen.                                         *)
(***************************************************************************)
EXTENDS Absence, Integers

CONSTANTS
    Grace,          \* alertHoldGrace
    LockCap,        \* lockHoldCap
    MaintenanceCap, \* maintenanceHoldCap
    Ceiling,        \* HoldCeiling of the app's operation
    MaxClock

ASSUME HoldConstants == {Grace, LockCap, MaintenanceCap, Ceiling, MaxClock} \subseteq Nat

VARIABLES
    clock,
    flagsRead,      \* the app's flags, as last read
    listed,         \* the app is in fleet.snapshot
    lockFirst, maintFirst, flagLast,    \* of alertingState, None when not there
    appOp,          \* the newest operation of the app
    heldFrom, heldTo    \* history: the first and the last of the answers "held"
                        \* given in a row since one of the reasons changed

holdVars == <<clock, flagsRead, listed, lockFirst, maintFirst, flagLast, appOp, heldFrom, heldTo>>

Moments == 0..MaxClock
Flags == [maintenance: BOOLEAN, locked: BOOLEAN]

(* An operation counts from its start, before that from its admission.     *)
AppOperation == [from: Moments, queued: BOOLEAN, finished: Moments \cup {None}]

ASSUME HoldRecords == None \notin Moments \cup AppOperation

-----------------------------------------------------------------------------
(* The question.                                                           *)

Earlier(a, b) == IF a < b THEN a ELSE b

(* operationHolds: until the grace after its end, and never longer than    *)
(* its ceiling allows.                                                     *)
OperationHolds ==
    /\ appOp # None
    /\ LET latest == appOp.from + Ceiling + Grace
       IN clock < (IF appOp.finished = None THEN latest ELSE Earlier(appOp.finished + Grace, latest))

Raised(flag) == listed /\ flagsRead[flag]

(* Mutant: a flag nobody could read counts as lowered.                     *)
LoweredUnread(flag) == ~Raised(flag)

Lowered(flag) == listed /\ ~flagsRead[flag]

Noted(first) == IF first = None THEN clock ELSE first
MaintenanceHolds == Raised("maintenance") /\ clock - Noted(maintFirst) <= MaintenanceCap
LockHolds ==
    /\ Raised("locked") /\ ~Raised("maintenance")
    /\ clock - Noted(lockFirst) <= LockCap + Grace
InGrace == flagLast # None /\ clock - flagLast < Grace

Recall(held) ==
    IF held THEN /\ heldFrom' = IF heldTo # None /\ clock <= heldTo + 1 THEN heldFrom ELSE clock
                 /\ heldTo' = clock
    ELSE heldFrom' = None /\ heldTo' = None

(* alertHold.  A live operation answers before the flags are looked at.    *)
AskHold ==
    /\ IF OperationHolds
       THEN UNCHANGED <<lockFirst, maintFirst, flagLast>> /\ Recall(TRUE)
       ELSE /\ maintFirst' = IF Raised("maintenance") THEN Noted(maintFirst)
                             ELSE IF Lowered("maintenance") THEN None ELSE maintFirst
            /\ lockFirst' = IF Lowered("locked") THEN None
                            ELSE IF Raised("locked") /\ ~Raised("maintenance") THEN Noted(lockFirst)
                            ELSE lockFirst
            /\ flagLast' = IF MaintenanceHolds \/ LockHolds THEN clock ELSE flagLast
            /\ Recall(MaintenanceHolds \/ LockHolds \/ InGrace)
    /\ UNCHANGED <<clock, flagsRead, listed, appOp>>

-----------------------------------------------------------------------------
(* What changes meanwhile.                                                 *)

ReasonChanges == heldFrom' = None /\ heldTo' = None

ClockTicks ==
    /\ clock < MaxClock
    /\ clock' = clock + 1
    /\ UNCHANGED <<flagsRead, listed, lockFirst, maintFirst, flagLast, appOp, heldFrom, heldTo>>

(* Somebody sets or clears a flag and a sweep of the fleet reads it.       *)
FlagsChange(flags) ==
    /\ listed /\ flagsRead # flags
    /\ flagsRead' = flags
    /\ ReasonChanges
    /\ UNCHANGED <<clock, listed, lockFirst, maintFirst, flagLast, appOp>>

(* A sweep that does not reach the app's server, and one that does again.  *)
SnapshotChanges ==
    /\ listed' = ~listed
    /\ UNCHANGED <<clock, flagsRead, lockFirst, maintFirst, flagLast, appOp, heldFrom, heldTo>>

OperationOnly ==
    /\ ReasonChanges
    /\ UNCHANGED <<clock, flagsRead, listed, lockFirst, maintFirst, flagLast>>

OperationAdmitted ==
    /\ appOp # None => appOp.finished # None
    /\ appOp' = [from |-> clock, queued |-> TRUE, finished |-> None]
    /\ OperationOnly

OperationStarts ==
    /\ appOp # None /\ appOp.queued /\ appOp.finished = None
    /\ appOp' = [appOp EXCEPT !.from = clock, !.queued = FALSE]
    /\ OperationOnly

(* It ends; one canceled in the queue has never started.                   *)
OperationEnds ==
    /\ appOp # None /\ appOp.finished = None
    /\ appOp' = [appOp EXCEPT !.finished = clock]
    /\ OperationOnly

-----------------------------------------------------------------------------
HoldInit ==
    /\ clock = 0 /\ flagsRead = [maintenance |-> FALSE, locked |-> FALSE] /\ listed = TRUE
    /\ lockFirst = None /\ maintFirst = None /\ flagLast = None
    /\ appOp = None /\ heldFrom = None /\ heldTo = None

HoldNext ==
    \/ AskHold \/ ClockTicks \/ SnapshotChanges
    \/ \E flags \in Flags : FlagsChange(flags)
    \/ OperationAdmitted \/ OperationStarts \/ OperationEnds

HoldSpec == HoldInit /\ [][HoldNext]_holdVars

-----------------------------------------------------------------------------
(* Properties                                                              *)

HoldTypeOK ==
    /\ clock \in Moments /\ flagsRead \in Flags /\ listed \in BOOLEAN
    /\ {lockFirst, maintFirst, flagLast, heldFrom, heldTo} \subseteq Moments \cup {None}
    /\ appOp \in AppOperation \cup {None}

(* A hung deploy, a lock a dead CLI left behind and a maintenance flag     *)
(* somebody forgot hide an outage for a time and no longer, and neither    *)
(* the change from one reason to the other nor a fleet that cannot be read *)
(* starts that time again (alertHold).                                     *)
LongestFlag == IF MaintenanceCap < LockCap + Grace THEN LockCap + Grace ELSE MaintenanceCap
HoldsEnd ==
    heldTo # None => heldTo - heldFrom <= (Ceiling + Grace) + LongestFlag + Grace
=============================================================================
