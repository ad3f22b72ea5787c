----------------------------- MODULE Heartbeats -----------------------------
(***************************************************************************)
(* The receivers Dash pings to show that it lives (heartbeat.go and        *)
(* heartbeatCRUD, testHeartbeat of alerting.go): configured in             *)
(* notifications.json, pinged by a loop and by test requests that read the *)
(* file first, with the last outcome of each kept in memory.               *)
(***************************************************************************)
EXTENDS Absence

CONSTANT Receivers

VARIABLES
    receivers,      \* cfg.Heartbeats
    outcomes,       \* Runner.results, the receivers that have one
    pings,          \* receivers that were read to be pinged and were not yet, by
                    \* the loop's round or by a test request
    forgetting,     \* receivers deleted from the file and not yet forgotten
    late,           \* history: pings that were under way when their receiver was forgotten
    broughtBack     \* history: receivers whose result such a ping brought back,
                    \* or whose delete reported an error

heartbeatVars == <<receivers, outcomes, pings, forgetting, late, broughtBack>>

PingKinds == {"round", "test"}
PingsOf(h) == {p \in pings : p[2] = h}

-----------------------------------------------------------------------------
(* heartbeatCRUD.  A save that fails leaves the old file or the new one.   *)
SaveReceiver(h) ==
    /\ receivers' \in {receivers, receivers \cup {h}}
    /\ UNCHANGED <<outcomes, pings, forgetting, late, broughtBack>>

DeleteReceiver(h) ==
    /\ h \in receivers
    /\ receivers' = receivers \ {h} /\ forgetting' = forgetting \cup {h}
    /\ UNCHANGED <<outcomes, pings, late, broughtBack>>

DeleteFails(h) ==
    /\ h \in receivers
    /\ receivers' = receivers \ {h} /\ broughtBack' = broughtBack \cup {h}
    /\ UNCHANGED <<outcomes, pings, forgetting, late>>

(* Mutant: the result is left to a ping that is under way.                 *)
ForgetIdle(h) ==
    /\ h \in forgetting
    /\ forgetting' = forgetting \ {h}
    /\ outcomes' = IF PingsOf(h) = {} THEN outcomes \ {h} ELSE outcomes
    /\ late' = late \cup PingsOf(h) /\ broughtBack' = broughtBack \ {h}
    /\ UNCHANGED <<receivers, pings>>

(* Forget: what a ping that is under way will store is not prevented.     *)
ForgetReceiver(h) ==
    /\ h \in forgetting
    /\ forgetting' = forgetting \ {h} /\ outcomes' = outcomes \ {h}
    /\ late' = late \cup PingsOf(h) /\ broughtBack' = broughtBack \ {h}
    /\ UNCHANGED <<receivers, pings>>

-----------------------------------------------------------------------------
(* Run reads the file once a round; testHeartbeat reads it for its ping.   *)

BeginRound ==
    /\ \A p \in pings : p[1] # "round"
    /\ pings' = pings \cup {<<"round", h>> : h \in receivers}
    /\ UNCHANGED <<receivers, outcomes, forgetting, late, broughtBack>>

BeginTest(h) ==
    /\ h \in receivers /\ <<"test", h>> \notin pings
    /\ pings' = pings \cup {<<"test", h>>}
    /\ UNCHANGED <<receivers, outcomes, forgetting, late, broughtBack>>

(* Ping, at its end: the result is stored whatever became of the receiver. *)
PingEnds(h) ==
    \E p \in PingsOf(h) :
        /\ pings' = pings \ {p} /\ late' = late \ {p}
        /\ outcomes' = outcomes \cup {h}
        /\ broughtBack' = IF p \in late THEN broughtBack \cup {h} ELSE broughtBack
        /\ UNCHANGED <<receivers, forgetting>>

HeartbeatsRestart ==
    /\ outcomes' = {} /\ pings' = {} /\ forgetting' = {} /\ late' = {} /\ broughtBack' = {}
    /\ UNCHANGED receivers

-----------------------------------------------------------------------------
HeartbeatInit ==
    /\ receivers = {} /\ outcomes = {} /\ pings = {}
    /\ forgetting = {} /\ late = {} /\ broughtBack = {}

HeartbeatNext ==
    \/ BeginRound \/ HeartbeatsRestart
    \/ \E h \in Receivers :
          \/ SaveReceiver(h) \/ DeleteReceiver(h) \/ DeleteFails(h) \/ ForgetReceiver(h)
          \/ BeginTest(h) \/ PingEnds(h)

HeartbeatSpec == HeartbeatInit /\ [][HeartbeatNext]_heartbeatVars

-----------------------------------------------------------------------------
(* Properties                                                              *)

HeartbeatTypeOK ==
    /\ {receivers, outcomes, forgetting, broughtBack} \subseteq SUBSET Receivers
    /\ pings \subseteq PingKinds \X Receivers /\ late \subseteq pings

(* A receiver that was deleted and forgotten has no result, though rounds  *)
(* and tests go on, until a ping that had read it before the delete ends:  *)
(* the code waits for none, and such a ping stores its result again        *)
(* (Forget, Ping).  No ping that begins later does.                        *)
ForgottenStaysForgotten ==
    outcomes \ receivers \subseteq forgetting \cup broughtBack
=============================================================================
