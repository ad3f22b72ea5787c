------------------------------ MODULE SetupTurn ------------------------------
(***************************************************************************)
(* Turning backups on from the setup page (backupsetup.go): one turn at a  *)
(* time, under setupMu, and its servers side by side.  What a server has   *)
(* is read, the policy is set there through the CLI, and Dash records what *)
(* was set and what the owner left unticked.  First backups are started by *)
(* a turn or by hand.                                                      *)
(***************************************************************************)
EXTENDS Absence, Naturals

CONSTANTS
    TurnServers,
    TurnItems,      \* what a server may have to back up
    VolumesItem,    \* the one that is its volumes, the others are databases
    MaxItemMoves    \* bound: changes on the servers

VARIABLES
    coverage,       \* of each server's items
    turnedOn,       \* servers that have a policy
    chosen,         \* what backups.json holds of it
    turn,           \* the handler that holds setupMu
    adopted,        \* history: the items a turn adopted on each server
    unsure,         \* history: servers a turn may have set without recording it
    itemMoves

turnVars == <<coverage, turnedOn, chosen, turn, adopted, unsure, itemMoves>>

Coverage == {"absent", "unmanaged", "uncovered", "excluded", "covered"}
Chosen == [skipped: [TurnServers -> SUBSET TurnItems], applied: SUBSET TurnServers,
           runs: SUBSET TurnServers, policy: BOOLEAN]
(* plan is what the read of a server led to.                               *)
Plan == [adopt: SUBSET TurnItems, skipped: SUBSET TurnItems, empty: BOOLEAN]
TurnStage == {"read", "skip", "set", "record", "start", "done"}
TurnOn == [skip: SUBSET TurnItems, volumes: BOOLEAN, now: BOOLEAN,
           stage: [TurnServers -> TurnStage],
           plan: [TurnServers -> Plan], ok: SUBSET TurnServers]

ASSUME TurnConstants ==
    VolumesItem \in TurnItems /\ MaxItemMoves \in Nat /\ None \notin TurnOn

With(s, status) == {i \in TurnItems : coverage[s][i] = status}
NoPlan == [adopt |-> {}, skipped |-> {}, empty |-> FALSE]
At(s, stage) == turn # None /\ turn.stage[s] = stage

-----------------------------------------------------------------------------
(* A turn.                                                                 *)

BeginTurn(skip, volumes, now) ==
    /\ turn = None
    /\ turn' = [skip |-> skip, volumes |-> volumes, now |-> now,
                stage |-> [s \in TurnServers |-> "read"],
                plan |-> [s \in TurnServers |-> NoPlan], ok |-> {}]
    /\ UNCHANGED <<coverage, turnedOn, chosen, adopted, unsure, itemMoves>>

PlanFor(s) ==
    LET skipped == With(s, "unmanaged") \cap turn.skip
        adopt == With(s, "unmanaged") \ turn.skip
        wanted == IF turn.volumes THEN TurnItems ELSE TurnItems \ {VolumesItem}
        targets == adopt \cup (With(s, "covered") \cap wanted)
        databases == TurnItems \ (With(s, "absent") \cup {VolumesItem}) IN
    [plan |-> [adopt |-> adopt, skipped |-> skipped, empty |-> targets = {} /\ databases = {}],
     none |-> targets = {} /\ skipped # {} /\ With(s, "uncovered") = {}]

(* The read fails or the server has no storage: it is left out.  When all  *)
(* there is was unticked, nothing is set.                                  *)
ReadCoverage(s) ==
    LET p == PlanFor(s) IN
    /\ At(s, "read")
    /\ \/ turn' = [turn EXCEPT !.stage[s] = "done"]
       \/ turn' = [turn EXCEPT !.stage[s] = IF p.none THEN "skip" ELSE "set", !.plan[s] = p.plan]
    /\ UNCHANGED <<coverage, turnedOn, chosen, adopted, unsure, itemMoves>>

SkipWhole(s) ==
    /\ At(s, "skip")
    /\ chosen' = [chosen EXCEPT !.skipped[s] = turn.plan[s].skipped, !.runs = @ \ {s}]
    /\ turn' = [turn EXCEPT !.stage[s] = "done"]
    /\ UNCHANGED <<coverage, turnedOn, adopted, unsure, itemMoves>>

(* backup-policy set with the databases to adopt.  Without a target it is  *)
(* refused unless the server holds nothing.  The call may also fail after  *)
(* the server stored it.                                                   *)
Stored(s) ==
    /\ turnedOn' = turnedOn \cup {s}
    /\ coverage' = [coverage EXCEPT ![s] =
         [i \in TurnItems |-> IF i \in turn.plan[s].adopt THEN "covered" ELSE @[i]]]
    /\ adopted' = [adopted EXCEPT ![s] = @ \cup turn.plan[s].adopt]
SetOn(s) ==
    /\ At(s, "set")
    /\ \/ /\ turn.plan[s].empty \/ turn.plan[s].adopt # {} \/ With(s, "covered") # {}
          /\ Stored(s)
          /\ turn' = [turn EXCEPT !.stage[s] = "record"] /\ UNCHANGED unsure
       \/ /\ Stored(s)
          /\ turn' = [turn EXCEPT !.stage[s] = "done"] /\ unsure' = unsure \cup {s}
       \/ /\ turn' = [turn EXCEPT !.stage[s] = "done"]
          /\ UNCHANGED <<coverage, turnedOn, adopted, unsure>>
    /\ UNCHANGED <<chosen, itemMoves>>

(* Mutant: what an earlier turn left out stays recorded when this one      *)
(* leaves nothing out.                                                     *)
RecordSkippedOnly(s) ==
    /\ At(s, "record")
    /\ chosen' = [chosen EXCEPT !.applied = @ \cup {s},
                    !.skipped[s] = IF turn.plan[s].skipped = {} THEN @ ELSE turn.plan[s].skipped]
    /\ turn' = [turn EXCEPT !.stage[s] = IF turn.now THEN "start" ELSE "done", !.ok = @ \cup {s}]
    /\ unsure' = unsure \ {s}
    /\ UNCHANGED <<coverage, turnedOn, adopted, itemMoves>>

RecordOn(s) ==
    /\ At(s, "record")
    /\ chosen' = [chosen EXCEPT !.applied = @ \cup {s}, !.skipped[s] = turn.plan[s].skipped]
    /\ turn' = [turn EXCEPT !.stage[s] = IF turn.now THEN "start" ELSE "done", !.ok = @ \cup {s}]
    /\ unsure' = unsure \ {s}
    /\ UNCHANGED <<coverage, turnedOn, adopted, itemMoves>>

(* startDetachedBackup: how it went is recorded, failed or not.            *)
StartFirst(s) ==
    /\ At(s, "start")
    /\ chosen' = [chosen EXCEPT !.runs = @ \cup {s}]
    /\ turn' = [turn EXCEPT !.stage[s] = "done"]
    /\ UNCHANGED <<coverage, turnedOn, adopted, unsure, itemMoves>>

(* handleSetupRun takes no setupMu.                                        *)
StartByHand(s) ==
    /\ chosen' = [chosen EXCEPT !.runs = @ \cup {s}]
    /\ UNCHANGED <<coverage, turnedOn, turn, adopted, unsure, itemMoves>>

(* "Turned on means at least one server really is."                        *)
EndTurn ==
    /\ turn # None /\ \A s \in TurnServers : turn.stage[s] = "done"
    /\ chosen' = [chosen EXCEPT !.policy = @ \/ turn.ok # {}]
    /\ turn' = None
    /\ UNCHANGED <<coverage, turnedOn, adopted, unsure, itemMoves>>

(* The process dies; nothing goes on with a turn.                          *)
TurnCrashes ==
    /\ turn # None /\ turn' = None
    /\ unsure' = unsure \cup {s \in TurnServers : turn.stage[s] = "record"}
    /\ UNCHANGED <<coverage, turnedOn, chosen, adopted, itemMoves>>

(* Somebody starts, removes, excludes or adopts something on a server.     *)
ItemMoves(s, i, status) ==
    /\ itemMoves < MaxItemMoves /\ status # coverage[s][i]
    /\ i = VolumesItem => status \in {"absent", "excluded", "covered"}
    /\ coverage' = [coverage EXCEPT ![s][i] = status]
    /\ adopted' = [adopted EXCEPT ![s] = @ \ {i}]
    /\ itemMoves' = itemMoves + 1
    /\ UNCHANGED <<turnedOn, chosen, turn, unsure>>

TurnInit ==
    /\ coverage = [s \in TurnServers |-> [i \in TurnItems |->
                     IF i = VolumesItem THEN "absent" ELSE "unmanaged"]]
    /\ turnedOn = {} /\ turn = None /\ unsure = {} /\ itemMoves = 0
    /\ adopted = [s \in TurnServers |-> {}]
    /\ chosen = [skipped |-> [s \in TurnServers |-> {}], applied |-> {}, runs |-> {},
                 policy |-> FALSE]

TurnNext ==
    \/ \E skip \in SUBSET (TurnItems \ {VolumesItem}), volumes, now \in BOOLEAN :
          BeginTurn(skip, volumes, now)
    \/ \E s \in TurnServers :
          \/ ReadCoverage(s) \/ SkipWhole(s) \/ SetOn(s) \/ RecordOn(s)
          \/ StartFirst(s) \/ StartByHand(s)
          \/ \E i \in TurnItems, status \in Coverage : ItemMoves(s, i, status)
    \/ EndTurn \/ TurnCrashes

TurnSpec == TurnInit /\ [][TurnNext]_turnVars

-----------------------------------------------------------------------------
(* Properties                                                              *)

TurnTypeOK ==
    /\ coverage \in [TurnServers -> [TurnItems -> Coverage]]
    /\ turnedOn \subseteq TurnServers /\ unsure \subseteq TurnServers
    /\ chosen \in Chosen /\ turn \in TurnOn \cup {None}
    /\ adopted \in [TurnServers -> SUBSET TurnItems] /\ itemMoves \in 0..MaxItemMoves

(* What Dash says the owner left out, no turn has adopted, over any number *)
(* of turns with other choices; and what it says is on, is on.  A call     *)
(* that failed after the server stored it, and a process that died before  *)
(* the record, are the exceptions until the next turn (handleSetupTurnOn). *)
ChoiceIsKept ==
    /\ \A s \in TurnServers \ unsure : ~At(s, "record") => chosen.skipped[s] \cap adopted[s] = {}
    /\ chosen.applied \subseteq turnedOn
    /\ chosen.policy => chosen.applied # {}
=============================================================================
