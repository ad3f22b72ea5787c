---------------------------- MODULE DomainHealth ----------------------------
(***************************************************************************)
(* The DNS incident of one domain (domains.go): a sweep asks each server of*)
(* the fleet what it serves, whole, in part or not at all, and what the    *)
(* records then say opens, keeps, recovers or retires the incident.  Other *)
(* domains share the records and nothing else.                             *)
(***************************************************************************)
EXTENDS Absence, Naturals

CONSTANTS
    DomainServers,  \* servers that may be in the fleet
    MaxMoves        \* changes of the world

VARIABLES
    members,        \* the fleet
    served,         \* the domain on each server: not there, or what DNS says of it
    moves,          \* changes left
    domainRec,      \* d.snap.Servers: state and this domain's row
    adopted,        \* d.snap.Adopted
    ruleKeys,       \* d.ruleKeys of the rule: the servers evidencing it
    incident,       \* the tracker's state of the rule
    domainSweep,    \* servers the sweep has yet to ask
    shown,          \* servers whose last whole answer to this process showed the domain
    forgotten,      \* those a rule no longer names, since another server kept it alive
    retiredNow      \* whether the last evaluation retired the open incident

domainVars == <<members, served, moves, domainRec, adopted, ruleKeys, incident, domainSweep,
                shown, forgotten, retiredNow>>

(* nxdomain is missing, wrong_target elsewhere; proxied counts as ok.      *)
DomainRow == {"none", "ok", "missing", "elsewhere", "unknown"}
DomainRecord == [state: {"ok", "partial", "unreachable"}, row: DomainRow]
(* The server is the rule's, when the incident is open.                    *)
Incident == [open: BOOLEAN, server: DomainServers \cup {None}, count: 0..1]

(* A sweep: the servers it has yet to ask of those it listed, whether it   *)
(* could list them, and whether the feature is there.                      *)
DomainSweep == [left: SUBSET DomainServers, listed: BOOLEAN, supported: BOOLEAN,
                fleet: SUBSET DomainServers]

ASSUME DomainRecords ==
    /\ None \notin DomainServers \cup DomainRecord \cup DomainSweep
    /\ \A servers \in SUBSET DomainServers : servers # None
    /\ MaxMoves \in Nat

NoIncident == [open |-> FALSE, server |-> None, count |-> 0]

-----------------------------------------------------------------------------
(* The world and the sweep.                                                *)

WorldMoves ==
    /\ moves > 0 /\ moves' = moves - 1
    /\ \/ \E s \in DomainServers, row \in DomainRow \ {"unknown"} :
             served' = [served EXCEPT ![s] = row] /\ UNCHANGED members
       \/ \E s \in DomainServers :
             members' = (IF s \in members THEN members \ {s} ELSE members \cup {s}) /\ UNCHANGED served
    /\ UNCHANGED <<domainRec, adopted, ruleKeys, incident, domainSweep, shown, forgotten, retiredNow>>

(* checkDomainsOnServers: none is asked without the feature or when the    *)
(* servers cannot be listed.                                               *)
BeginSweep(supported, listed) ==
    /\ domainSweep = None
    /\ domainSweep' = [left |-> IF supported /\ listed THEN members ELSE {},
                       listed |-> supported /\ listed,
                       supported |-> supported,
                       fleet |-> IF supported /\ listed THEN members ELSE {}]
    /\ retiredNow' = FALSE
    /\ UNCHANGED <<members, served, moves, domainRec, adopted, ruleKeys, incident, shown, forgotten>>

(* runDomainsCheck and recordDomainCheck: no answer keeps the rows,        *)
(* part of one replaces them.                                              *)
CheckAnswers(s, state) ==
    CASE state = "unreachable" -> {IF domainRec[s] = None THEN "none" ELSE domainRec[s].row}
      [] state = "ok"          -> {served[s]} \cup (IF served[s] = "none" THEN {} ELSE {"unknown"})
      [] state = "partial"     -> {served[s], "none"}

AskServer(s, state, row) ==
    /\ domainSweep # None /\ s \in domainSweep.left /\ row \in CheckAnswers(s, state)
    /\ domainRec' = [domainRec EXCEPT ![s] = [state |-> state, row |-> row]]
    /\ domainSweep' = [domainSweep EXCEPT !.left = @ \ {s}]
    /\ shown' = IF state # "ok" THEN shown ELSE IF row = "none" THEN shown \ {s} ELSE shown \cup {s}
    /\ UNCHANGED <<members, served, moves, adopted, ruleKeys, incident, forgotten, retiredNow>>

-----------------------------------------------------------------------------
(* evaluateDomainIncidents.                                                *)

(* Records of servers that left the fleet go first.                        *)
Kept == [s \in DomainServers |-> IF domainSweep.listed /\ s \notin domainSweep.fleet THEN None ELSE domainRec[s]]
ServingRows == {s \in DomainServers : Kept[s] # None /\ Kept[s].row # "none"}
FreshRows == {s \in ServingRows : Kept[s].state # "unreachable"}
Saying(row) == {s \in FreshRows : Kept[s].row = row}

(* representative: a fresh row whose DNS agrees, else a fresh one.         *)
Representatives == IF Saying("ok") # {} THEN Saying("ok") ELSE IF FreshRows # {} THEN FreshRows ELSE ServingRows

(* dnsLayer: DNS that points elsewhere may point at a server not read.     *)
Says(rep) ==
    CASE ~domainSweep.supported \/ rep \notin FreshRows -> None
      [] Kept[rep].row = "ok" -> "ok"
      [] Kept[rep].row = "missing" -> "fail"
      [] Kept[rep].row = "elsewhere" /\ ServingRows = FreshRows -> "fail"
      [] OTHER -> None

(* Mutant: the incident is opened and its server forgotten.                *)
MarkOpenUnnamed(rep) == [open |-> TRUE, server |-> None, count |-> 0]

(* The server is the one of the row the finding was made from.             *)
MarkOpen(rep) == [open |-> TRUE, server |-> rep, count |-> 0]

(* Two failing evaluations open it and two good ones close it.  The first  *)
(* results of a server are adopted at once, and an outage the monitor's    *)
(* incident reports opens nothing.                                         *)
Observed(rep, monitorDown) ==
    CASE Says(rep) = "ok" /\ incident.open -> IF incident.count = 1 THEN NoIncident ELSE [incident EXCEPT !.count = 1]
      [] Says(rep) = "ok" -> NoIncident
      [] Says(rep) = "fail" /\ incident.open -> [incident EXCEPT !.count = 0]
      [] Says(rep) = "fail" /\ ~monitorDown /\ (rep \notin adopted \/ incident.count = 1) ->
            MarkOpen(rep)
      [] Says(rep) = "fail" /\ ~monitorDown -> [incident EXCEPT !.count = 1]
      [] OTHER -> incident

(* Mutant: what the servers that held the rule answered does not matter.   *)
MayRetireUnread(servers) == domainSweep.supported

(* Every server that held the rule has been read, or has left the fleet.   *)
MayRetire(servers) ==
    domainSweep.supported /\ \A s \in servers : Kept[s] = None \/ Kept[s].state = "ok"

EndSweep(rep, monitorDown) ==
    /\ domainSweep # None /\ domainSweep.left = {}
    /\ rep \in IF ServingRows = {} THEN {None} ELSE Representatives
    /\ LET holders == IF ruleKeys # None THEN ruleKeys ELSE {incident.server}
           held    == ruleKeys # None \/ incident.open IN
       IF domainSweep.supported /\ ServingRows # {}
       THEN /\ incident' = Observed(rep, monitorDown)
            /\ ruleKeys' = ServingRows
            /\ forgotten' = shown \ ServingRows
            /\ retiredNow' = FALSE
       ELSE IF held /\ MayRetire(holders)
       THEN /\ incident' = NoIncident
            /\ ruleKeys' = None
            /\ retiredNow' = incident.open
            /\ UNCHANGED forgotten
       ELSE /\ ruleKeys' = IF held THEN holders ELSE None
            /\ retiredNow' = FALSE
            /\ UNCHANGED <<incident, forgotten>>
    /\ domainRec' = Kept
    /\ adopted' = adopted \cup {s \in DomainServers :
                                   domainSweep.supported /\ Kept[s] # None /\ Kept[s].state = "ok"}
    /\ shown' = shown \cap {s \in DomainServers : Kept[s] # None}
    /\ domainSweep' = None
    /\ UNCHANGED <<members, served, moves>>

(* The snapshot and the incidents are files, the rule keys are not.  What  *)
(* an unfinished sweep read is lost with it, as if it had not begun.       *)
DomainRestart ==
    /\ domainSweep = None
    /\ ruleKeys' = None /\ shown' = {} /\ forgotten' = {} /\ retiredNow' = FALSE
    /\ incident' = IF incident.open THEN incident ELSE NoIncident
    /\ UNCHANGED <<members, served, moves, domainRec, adopted, domainSweep>>

-----------------------------------------------------------------------------
(* The domain is on every server and its records are missing.              *)
DomainInit ==
    /\ members = DomainServers /\ served = [s \in DomainServers |-> "missing"]
    /\ moves = MaxMoves
    /\ domainRec = [s \in DomainServers |-> None] /\ adopted = {}
    /\ ruleKeys = None /\ incident = NoIncident
    /\ domainSweep = None /\ shown = {} /\ forgotten = {} /\ retiredNow = FALSE

DomainNext ==
    \/ WorldMoves
    \/ \E supported, listed \in BOOLEAN : BeginSweep(supported, listed)
    \/ \E s \in DomainServers, state \in {"ok", "partial", "unreachable"}, row \in DomainRow : AskServer(s, state, row)
    \/ \E rep \in DomainServers \cup {None}, down \in BOOLEAN : EndSweep(rep, down)
    \/ DomainRestart

DomainSpec == DomainInit /\ [][DomainNext]_domainVars

-----------------------------------------------------------------------------
(* Properties                                                              *)

DomainTypeOK ==
    /\ members \subseteq DomainServers /\ served \in [DomainServers -> DomainRow]
    /\ domainRec \in [DomainServers -> DomainRecord \cup {None}]
    /\ adopted \subseteq DomainServers /\ shown \subseteq DomainServers /\ forgotten \subseteq DomainServers
    /\ ruleKeys \in (SUBSET DomainServers) \cup {None}
    /\ incident \in Incident /\ incident.open = (incident.server # None)
    /\ domainSweep \in DomainSweep \cup {None} /\ retiredNow \in BOOLEAN /\ moves \in 0..MaxMoves

(* An open incident is retired only when no server's last whole answer     *)
(* still shows the domain: a partial answer, or none, retires nothing      *)
(* (evaluateDomainIncidents, carried).  A server that answered in part     *)
(* while another still showed the domain has lost that protection.         *)
RetiredOnEvidence == retiredNow => shown \subseteq forgotten

(* The same for every server the rule ever had.                            *)
AllRetiredOnEvidence == retiredNow => shown = {}
=============================================================================
