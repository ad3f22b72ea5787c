------------------------------- MODULE Cleanup -------------------------------
(***************************************************************************)
(* Server audits and their dismissed findings (cleanup.go).  An audit runs *)
(* as an operation; when it ends its report is merged into a record kept   *)
(* in memory and in server-audit.json.  People dismiss findings of the     *)
(* report they see.  The file is always written here: a write that fails   *)
(* is only logged and costs what changed since at the next restart.        *)
(***************************************************************************)
EXTENDS Absence

CONSTANTS
    AuditServers,   \* servers that are audited
    Machines,       \* the machines that may bear their names
    Findings        \* finding ids, stable across audits

VARIABLES
    machine,        \* the machine each server's name stands for, None when it is not configured
    audit,          \* the machine each server's live audit looks at
    records,        \* c.snap.Servers
    dismissed,      \* c.snap.Dismissals
    wished,         \* history: findings somebody wants hidden and no audit saw cleared
    excused         \* history: servers whose record a failed server list cost

cleanupVars == <<machine, audit, records, dismissed, wished, excused>>

(* A complete report has state ok; the others, partial or unreachable, may *)
(* miss findings.                                                          *)
AuditReport == [by: Machines, complete: BOOLEAN, findings: SUBSET Findings]
AuditRecord == [report: AuditReport \cup {None}]

ASSUME CleanupRecords == None \notin AuditRecord

NoRecords == [s \in AuditServers |-> None]
NothingDismissed == [s \in AuditServers |-> {}]
HasReport(s) == records[s] # None /\ records[s].report # None

-----------------------------------------------------------------------------
(* handleCleanupAuditRun: one live audit per server.                       *)
QueueAudit(s) ==
    /\ machine[s] # None /\ audit[s] = None
    /\ audit' = [audit EXCEPT ![s] = machine[s]]
    /\ UNCHANGED <<machine, records, dismissed, wished, excused>>

(* A success replaces the report, a failure keeps the one there was.       *)
Merged(s, report) ==
    [report |-> IF report # None THEN report ELSE IF records[s] # None THEN records[s].report ELSE None]

(* What a complete report no longer lists is not dismissed any more.       *)
StillDismissed(s, merged) ==
    IF merged.report # None /\ merged.report.complete THEN dismissed[s] \cap merged.report.findings
    ELSE dismissed[s]

(* Mutant: what a partial report misses counts as cleared.                 *)
StillListed(s, merged) ==
    IF merged.report # None THEN dismissed[s] \cap merged.report.findings ELSE dismissed[s]

(* onCleanupOperationFinished and applyServerAuditResult: the records of   *)
(* servers not in the list go.  A list that cannot be read is empty.       *)
AuditEnds(s, report, listed) ==
    LET merged == Merged(s, report)
        gone == {t \in AuditServers \ {s} : records[t] # None /\ t \notin listed}
    IN /\ audit[s] # None /\ audit' = [audit EXCEPT ![s] = None]
       /\ records' = [t \in AuditServers |-> IF t = s THEN merged ELSE IF t \in gone THEN None ELSE records[t]]
       /\ dismissed' = [t \in AuditServers |-> IF t = s THEN StillDismissed(s, merged)
                                               ELSE IF t \in gone THEN {} ELSE dismissed[t]]
       /\ wished' = [t \in AuditServers |->
             IF t = s /\ report # None /\ report.complete THEN wished[t] \cap report.findings
             ELSE IF t \in gone /\ machine[t] = None THEN {} ELSE wished[t]]
       /\ excused' = excused \cup {t \in gone : machine[t] # None}
       /\ UNCHANGED machine

(* Findings are of the machine the audit looked at.                        *)
AuditReports(s) ==
    \E complete \in BOOLEAN, found \in SUBSET Findings, listed \in {{t \in AuditServers : machine[t] # None}, {}} :
        AuditEnds(s, [by |-> audit[s], complete |-> complete, findings |-> found], listed)

AuditFails(s) ==
    \E listed \in {{t \in AuditServers : machine[t] # None}, {}} : AuditEnds(s, None, listed)

-----------------------------------------------------------------------------
(* handleCleanupDismissal: of a finding the report shows.                  *)

Dismiss(s, f) ==
    /\ HasReport(s) /\ f \in records[s].report.findings
    /\ dismissed' = [dismissed EXCEPT ![s] = @ \cup {f}]
    /\ wished' = [wished EXCEPT ![s] = @ \cup {f}]
    /\ UNCHANGED <<machine, audit, records, excused>>

Undismiss(s, f) ==
    /\ HasReport(s) /\ f \in records[s].report.findings \cap dismissed[s]
    /\ dismissed' = [dismissed EXCEPT ![s] = @ \ {f}]
    /\ wished' = [wished EXCEPT ![s] = @ \ {f}]
    /\ UNCHANGED <<machine, audit, records, excused>>

(* handleCleanupRemedy and planCleanupRemedy: the host a remedy names is   *)
(* compared with the report it comes from, so it always passes; what is    *)
(* queued names the server and runs on the machine that name stands for.   *)
Runnable(s, f) == HasReport(s) /\ f \in records[s].report.findings

-----------------------------------------------------------------------------
(* servers.yml is edited: a name goes, comes, or stands for another machine. *)
ServerEdited(s, m) ==
    /\ machine[s] # m
    /\ machine' = [machine EXCEPT ![s] = m]
    /\ UNCHANGED <<audit, records, dismissed, wished, excused>>

(* initCleanup.  An audit the stop interrupts reports to nobody: recovery  *)
(* settles it without OnFinish.                                            *)
CleanupRestart ==
    /\ audit' = NoRecords
    /\ UNCHANGED <<machine, records, dismissed, wished, excused>>

-----------------------------------------------------------------------------
CleanupInit ==
    /\ machine = NoRecords /\ audit = NoRecords
    /\ records = NoRecords /\ dismissed = NothingDismissed
    /\ wished = NothingDismissed /\ excused = {}

CleanupNext ==
    \/ CleanupRestart
    \/ \E s \in AuditServers :
          \/ QueueAudit(s) \/ AuditReports(s) \/ AuditFails(s)
          \/ \E f \in Findings : Dismiss(s, f) \/ Undismiss(s, f)
          \/ \E m \in Machines \cup {None} : ServerEdited(s, m)

CleanupSpec == CleanupInit /\ [][CleanupNext]_cleanupVars

-----------------------------------------------------------------------------
(* Properties                                                              *)

CleanupTypeOK ==
    /\ {machine, audit} \subseteq [AuditServers -> Machines \cup {None}]
    /\ records \in [AuditServers -> AuditRecord \cup {None}]
    /\ {dismissed, wished} \subseteq [AuditServers -> SUBSET Findings]
    /\ excused \subseteq AuditServers

(* What somebody dismissed stays hidden over failed, partial and           *)
(* unreachable audits, until a complete audit does not list it: "missing   *)
(* is not cleared" (cleanup.go).  A dismissal always has a report it came  *)
(* from, and a complete report lists it.                                   *)
DismissedStaysHidden ==
    \A s \in AuditServers :
        /\ s \notin excused => wished[s] \subseteq dismissed[s]
        /\ dismissed[s] # {} => HasReport(s)
        /\ HasReport(s) /\ records[s].report.complete => dismissed[s] \subseteq records[s].report.findings

(* No other server's audit makes Dash forget a dismissal.  It fails: one   *)
(* that ends while the server list cannot be read deletes every other      *)
(* server's record, as if they had left the fleet (serverConfigured).      *)
NothingForgotten == \A s \in AuditServers : wished[s] \subseteq dismissed[s]

(* A remedy runs on the machine whose audit named it ("the host must be    *)
(* the audited server", planCleanupRemedy).  It fails for a name that came *)
(* to stand for another machine: the report is kept.                       *)
RemedyOnAuditedMachine ==
    \A s \in AuditServers, f \in Findings :
        Runnable(s, f) /\ machine[s] # None => machine[s] = records[s].report.by
=============================================================================
