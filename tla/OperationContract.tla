-------------------------- MODULE OperationContract --------------------------
(***************************************************************************)
(* What the operation service promises its callers, without records,       *)
(* goroutines, budgets or storage: per target, admitted operations form a  *)
(* FIFO queue; only the head is ever executed, at most once, and only      *)
(* while it is the head; a process end settles everything without          *)
(* executing anything.                                                     *)
(***************************************************************************)
EXTENDS Sequences

CONSTANTS OpIds, Targets

VARIABLES
    life,    \* "new", "refused", "admitted", "started" or "settled", per id
    queue    \* per target, the operations that are admitted or started

cvars == <<life, queue>>

CInit ==
    /\ life = [i \in OpIds |-> "new"]
    /\ queue = [t \in Targets |-> << >>]

CAdmit(i, t) ==
    /\ life[i] = "new"
    /\ life' = [life EXCEPT ![i] = "admitted"]
    /\ queue' = [queue EXCEPT ![t] = Append(@, i)]

CRefuse(i) ==
    /\ life[i] = "new"
    /\ life' = [life EXCEPT ![i] = "refused"]
    /\ UNCHANGED queue

CStart(t) ==
    /\ queue[t] # << >>
    /\ life[Head(queue[t])] = "admitted"
    /\ life' = [life EXCEPT ![Head(queue[t])] = "started"]
    /\ UNCHANGED queue

CSettle(t) ==
    /\ queue[t] # << >>
    /\ life' = [life EXCEPT ![Head(queue[t])] = "settled"]
    /\ queue' = [queue EXCEPT ![t] = Tail(@)]

CStop ==
    /\ life' = [i \in OpIds |-> IF life[i] \in {"admitted", "started"} THEN "settled"
                                ELSE life[i]]
    /\ queue' = [t \in Targets |-> << >>]

CNext ==
    \/ \E i \in OpIds, t \in Targets : CAdmit(i, t)
    \/ \E i \in OpIds : CRefuse(i)
    \/ \E t \in Targets : CStart(t) \/ CSettle(t)
    \/ CStop

CSpec == CInit /\ [][CNext]_cvars
=============================================================================
