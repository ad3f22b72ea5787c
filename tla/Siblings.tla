------------------------------- MODULE Siblings -------------------------------
(***************************************************************************)
(* Sibling discovery (siblings.go): sweeps ask each server what Teploy     *)
(* products run there and probe what it lists.  The hourly sweep and the   *)
(* one a person starts may overlap; rows and probes of a server enter its  *)
(* record in two critical sections with the probes in between.  Failed     *)
(* saves are only logged.  Which addresses a probe may dial, and what it   *)
(* finds there, is left out.                                               *)
(***************************************************************************)
EXTENDS Absence, Naturals

CONSTANTS
    SiblingServers, \* servers that may be configured
    MaxReports      \* bound: reports of servers

ASSUME SiblingConstants == MaxReports \in Nat

VARIABLES
    siblingFleet,   \* the configured servers
    reports,        \* reports given so far, which are numbered
    siblingRec,     \* sb.snap.Servers: whose report the rows and the probes are of
    siblingFile,    \* siblings.json, with what was apart when it was written
    siblingSweep,   \* the hourly sweep and the one that holds sweepInFlight
    apart           \* history: servers whose rows and probes need not belong together

siblingVars == <<siblingFleet, reports, siblingRec, siblingFile, siblingSweep, apart>>

Sweepers == {"hourly", "by hand"}
SiblingRecord == [rows: 0..MaxReports, probes: 0..MaxReports]
(* probe: its rows are on record; look: the probes will be thrown away.    *)
SiblingStage == {"ask", "answer", "probe", "look", "done"}
(* mine: the records it has written to that are still there.               *)
SiblingSweep == [stage: [SiblingServers -> SiblingStage], got: [SiblingServers -> 0..MaxReports],
                 list: SUBSET SiblingServers, mine: SUBSET SiblingServers, pruned: BOOLEAN]

ASSUME SiblingRecords == None \notin SiblingRecord \cup SiblingSweep

Sweeping(by, s, stages) == siblingSweep[by] # None /\ siblingSweep[by].stage[s] \in stages
Reading(s) == {by \in Sweepers : Sweeping(by, s, {"answer", "probe", "look"})}
SweepMoves(by, s, stage) == siblingSweep' = [siblingSweep EXCEPT ![by].stage[s] = stage]

(* saveLocked, for the whole snapshot.                                     *)
Unprobed == {s \in SiblingServers : \E by \in Sweepers :
                Sweeping(by, s, {"probe"}) /\ s \in siblingSweep[by].mine}
SaveSnapshot ==
    siblingFile' \in {siblingFile, [rec |-> siblingRec', apart |-> (apart \cup Unprobed)']}

-----------------------------------------------------------------------------
(* sweepSiblings and collectSiblings; a sweep that cannot list the servers *)
(* or finds an old CLI only saves that it did.                             *)
BeginSiblings(by) ==
    /\ siblingSweep[by] = None
    /\ siblingSweep' = [siblingSweep EXCEPT ![by] =
         [stage |-> [s \in SiblingServers |-> IF s \in siblingFleet THEN "ask" ELSE "done"],
          got |-> [s \in SiblingServers |-> 0], list |-> siblingFleet, mine |-> {}, pruned |-> FALSE]]
    /\ UNCHANGED <<siblingFleet, reports, siblingRec, siblingFile, apart>>

SweepsNothing(by) ==
    /\ siblingSweep[by] = None
    /\ UNCHANGED <<siblingFleet, reports, siblingRec, siblingSweep, apart>>
    /\ SaveSnapshot

(* handleSiblingsSettings: which addresses may be probed is kept there too.*)
SettingsSaved ==
    /\ UNCHANGED <<siblingFleet, reports, siblingRec, siblingSweep, apart>>
    /\ SaveSnapshot

(* runSiblingsCheck *)
ServerReports(by, s) ==
    /\ Sweeping(by, s, {"ask"}) /\ reports < MaxReports
    /\ reports' = reports + 1
    /\ siblingSweep' = [siblingSweep EXCEPT ![by].stage[s] = "answer", ![by].got[s] = reports + 1]
    /\ apart' = IF Reading(s) = {} THEN apart ELSE apart \cup {s}
    /\ UNCHANGED <<siblingFleet, siblingRec, siblingFile>>

(* The time of a sweep by hand is limited.                                 *)
SweepGivesUp(s) ==
    /\ Sweeping("by hand", s, {"ask", "answer"})
    /\ SweepMoves("by hand", s, "done")
    /\ UNCHANGED <<siblingFleet, reports, siblingRec, siblingFile, apart>>

(* recordSiblings.  A read that failed keeps what there is.                *)
Known(s) == IF siblingRec[s] = None THEN [rows |-> 0, probes |-> 0] ELSE siblingRec[s]
ReportFails(by, s) ==
    /\ Sweeping(by, s, {"ask"})
    /\ siblingRec' = [siblingRec EXCEPT ![s] = Known(s)]
    /\ SweepMoves(by, s, "done")
    /\ UNCHANGED <<siblingFleet, reports, apart>>
    /\ SaveSnapshot

(* A report that calls the server unreachable replaces the rows all the    *)
(* same, and its probes are not kept.                                      *)
RecordReport(by, s, reachable) ==
    /\ Sweeping(by, s, {"answer"})
    /\ siblingRec' = [siblingRec EXCEPT ![s] = [Known(s) EXCEPT !.rows = siblingSweep[by].got[s]]]
    /\ siblingSweep' = [siblingSweep EXCEPT ![by].stage[s] = IF reachable THEN "probe" ELSE "look",
                                            ![by].mine = @ \cup {s}]
    /\ apart' = IF ~reachable THEN apart \cup {s}
                ELSE IF Reading(s) = {by} THEN apart \ {s} ELSE apart
    /\ UNCHANGED <<siblingFleet, reports, siblingFile>>

(* The merge after the probes, onto the record it wrote the rows to.       *)
MergeProbes(by, s) ==
    /\ Sweeping(by, s, {"probe", "look"})
    /\ SweepMoves(by, s, "done")
    /\ UNCHANGED <<siblingFleet, reports, apart>>
    /\ IF s \in siblingSweep[by].mine
       THEN /\ siblingRec' = IF Sweeping(by, s, {"probe"})
                             THEN [siblingRec EXCEPT ![s].probes = siblingSweep[by].got[s]] ELSE siblingRec
            /\ SaveSnapshot
       ELSE UNCHANGED <<siblingRec, siblingFile>>

(* Records of servers it did not list go, whoever is writing to them.      *)
ForgetDeparted(by) ==
    /\ siblingSweep[by] # None /\ ~siblingSweep[by].pruned
    /\ \A s \in SiblingServers : Sweeping(by, s, {"done"})
    /\ siblingRec' = [s \in SiblingServers |-> IF s \in siblingSweep[by].list THEN siblingRec[s] ELSE None]
    /\ siblingSweep' = [b \in Sweepers |->
         IF b = by THEN [siblingSweep[b] EXCEPT !.pruned = TRUE]
         ELSE IF siblingSweep[b] = None THEN None
         ELSE [siblingSweep[b] EXCEPT !.mine = @ \cap siblingSweep[by].list]]
    /\ UNCHANGED <<siblingFleet, reports, siblingFile, apart>>

EndSiblings(by) ==
    /\ siblingSweep[by] # None /\ siblingSweep[by].pruned
    /\ siblingSweep' = [siblingSweep EXCEPT ![by] = None]
    /\ UNCHANGED <<siblingFleet, reports, siblingRec, apart>>
    /\ SaveSnapshot

SiblingFleetEdited(s) ==
    /\ siblingFleet' \in {siblingFleet \cup {s}, siblingFleet \ {s}}
    /\ UNCHANGED <<reports, siblingRec, siblingFile, siblingSweep, apart>>

(* initSiblings *)
SiblingsRestart ==
    /\ siblingRec' = siblingFile.rec /\ apart' = siblingFile.apart
    /\ siblingSweep' = [by \in Sweepers |-> None]
    /\ UNCHANGED <<siblingFleet, reports, siblingFile>>

-----------------------------------------------------------------------------
SiblingInit ==
    /\ siblingFleet = SiblingServers /\ reports = 0 /\ apart = {}
    /\ siblingRec = [s \in SiblingServers |-> None]
    /\ siblingFile = [rec |-> [s \in SiblingServers |-> None], apart |-> {}]
    /\ siblingSweep = [by \in Sweepers |-> None]

SiblingNext ==
    \/ SettingsSaved \/ SiblingsRestart
    \/ \E by \in Sweepers :
          \/ BeginSiblings(by) \/ SweepsNothing(by) \/ ForgetDeparted(by) \/ EndSiblings(by)
          \/ \E s \in SiblingServers :
                \/ ServerReports(by, s) \/ ReportFails(by, s) \/ MergeProbes(by, s)
                \/ \E reachable \in BOOLEAN : RecordReport(by, s, reachable)
    \/ \E s \in SiblingServers : SweepGivesUp(s) \/ SiblingFleetEdited(s)

SiblingSpec == SiblingInit /\ [][SiblingNext]_siblingVars

-----------------------------------------------------------------------------
(* Properties                                                              *)

SiblingTypeOK ==
    /\ siblingFleet \subseteq SiblingServers /\ reports \in 0..MaxReports
    /\ siblingRec \in [SiblingServers -> SiblingRecord \cup {None}]
    /\ siblingFile.rec \in [SiblingServers -> SiblingRecord \cup {None}]
    /\ {apart, siblingFile.apart} \subseteq SUBSET SiblingServers
    /\ siblingSweep \in [Sweepers -> SiblingSweep \cup {None}]

(* The products a server lists and the probes shown with them are of one   *)
(* report, over failing reads and saves, servers that leave and restarts   *)
(* in the middle of a sweep.  The exceptions: two sweeps were at the server*)
(* together, or its report called it unreachable; both last until a sweep  *)
(* reads it alone (recordSiblings).                                        *)
ProbedAsListed ==
    \A s \in SiblingServers \ (apart \cup Unprobed) :
        siblingRec[s] # None => siblingRec[s].probes = siblingRec[s].rows

(* "re-checks the record is still this sweep's before writing"             *)
(* (recordSiblings).  It fails: sweeps write to one and the same record, so*)
(* an overlapping sweep may have replaced the rows.                        *)
StillThisSweeps ==
    \A by \in Sweepers, s \in SiblingServers :
        Sweeping(by, s, {"probe"}) /\ s \in siblingSweep[by].mine =>
            siblingRec[s].rows = siblingSweep[by].got[s]
=============================================================================
