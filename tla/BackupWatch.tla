----------------------------- MODULE BackupWatch -----------------------------
(***************************************************************************)
(* What Dash knows about one server's backups: the sweep that reads its    *)
(* status, pushes that read and record it outside the sweep, the evidence  *)
(* kept per database, the automatic restore tests and the incidents.       *)
(* Records of different servers share no field, so the model has one.      *)
(* One action per section under backups.mu, per CLI read and per tracker   *)
(* call.  The engine of a database is fixed, evidence that grew too old    *)
(* counts as a failed read, and time makes any test due.  Of the rules the *)
(* model keeps the one for failing backups, which stands for the others,   *)
(* and leaves the incidents of the tests out.                              *)
(***************************************************************************)
EXTENDS Absence, Integers, FiniteSets

CONSTANTS
    Databases,      \* databases of the server, managed or adopted
    Pushes,         \* storage pushes and restores that may be under way
    MaxKey,         \* bound: backups the server makes of one database
    ReadsMayOverlap \* bound: whether a status is read while another is under way

ASSUME BackupWatchConstants == None \notin Databases /\ MaxKey \in Nat /\ ReadsMayOverlap \in BOOLEAN

VARIABLES
    made,           \* backups the server has made of each database
    record,         \* backups.rec.Servers[server]
    tests,          \* backups.rec.Tests of the server
    job,            \* the goroutine of tickBackupTests
    running,        \* backups.running[server]
    sweep,          \* sweepBackups, held by sweepMu
    push,           \* pushBackupTargetOne
    alarm,          \* databases whose backups have an open incident
    crossed         \* history: a push and another read of the server overlapped

watchVars == <<made, record, tests, job, running, sweep, push, alarm, crossed>>

(* A status: the coverage of each database and its newest backup.          *)
Coverages == {"covered", "failing", "stale", "gone"}
Env == [Databases -> [cov: Coverages, key: 0..MaxKey]]

(* Evidence for the takeover of a hand-written job (backupMigrateEntry),   *)
(* with the backup it counts from (from), which the code does not keep.    *)
Evidence == [last: 0..MaxKey, good: 0..MaxKey, from: 0..MaxKey]
Record == [status: [Databases -> Coverages] \cup {None}, fresh: BOOLEAN,
           keys: SUBSET Databases,
           mig: [Databases -> Evidence \cup {None}]]
AutoTest == [retired: BOOLEAN, green: BOOLEAN]
Job == [db: Databases, pc: {"check", "verify", "release"}, orphan: BOOLEAN]
BackupSweep == [pc: {"idle", "record", "reconcile", "evaluate", "retire"},
                env: Env \cup {None}, rules: SUBSET Databases]
Push == [env: Env \cup {None}]

ASSUME WatchRecords == None \notin Env \cup Evidence \cup Record \cup AutoTest \cup Job \cup Push

NoRecord == [status |-> None, fresh |-> FALSE, keys |-> {}, mig |-> [d \in Databases |-> None]]
HeardFrom(r) == r # None /\ r.fresh

-----------------------------------------------------------------------------
(* Reading and recording.                                                  *)

(* A run of the server's policy makes a new backup.                        *)
BackupRuns(d) ==
    /\ made[d] < MaxKey
    /\ made' = [made EXCEPT ![d] = @ + 1]
    /\ UNCHANGED <<record, tests, job, running, sweep, push, alarm, crossed>>

(* What the server's CLI may answer, or no answer (None).                  *)
ServerSays == {[d \in Databases |-> [cov |-> cov[d], key |-> made[d]]] :
               cov \in {c \in [Databases -> Coverages] : \A d \in Databases :
                          c[d] = "covered" => made[d] > 0}} \cup {None}

(* Mutant: a backup that was seen before counts again.                     *)
FoldRepeats(m, e) ==
    LET known == IF m = None THEN [last |-> 0, good |-> 0, from |-> 0] ELSE m IN
    CASE e.cov = "gone" -> None
      [] e.cov = "failing" -> [known EXCEPT !.good = 0, !.from = known.last]
      [] e.cov = "covered" /\ known.last = 0 -> [last |-> e.key, good |-> 0, from |-> e.key]
      [] e.cov = "covered" -> [known EXCEPT !.last = e.key, !.good = IF @ = MaxKey THEN @ ELSE @ + 1]
      [] OTHER -> known

(* updateBackupMigration: a new newest object of a good series counts, a   *)
(* failing read resets the chain, an entry that is not listed is dropped.  *)
Fold(m, e) ==
    LET known == IF m = None THEN [last |-> 0, good |-> 0, from |-> 0] ELSE m IN
    CASE e.cov = "gone" -> None
      [] e.cov = "failing" -> [known EXCEPT !.good = 0, !.from = known.last]
      [] e.cov = "covered" /\ e.key # known.last ->
            IF known.last = 0 THEN [last |-> e.key, good |-> 0, from |-> e.key]
            ELSE [known EXCEPT !.last = e.key, !.good = IF @ = MaxKey THEN @ ELSE @ + 1]
      [] OTHER -> known

(* recordBackupStatus: a failed read keeps the last status.                *)
Recorded(r, env) ==
    LET rec == IF r = None THEN NoRecord ELSE r IN
    IF env = None THEN [rec EXCEPT !.fresh = FALSE]
    ELSE [rec EXCEPT !.fresh = TRUE, !.status = [d \in Databases |-> env[d].cov],
                     !.mig = [d \in Databases |-> Fold(rec.mig[d], env[d])]]

(* A status was read and is not recorded yet.                              *)
ReadUnderWay == sweep.pc = "record" \/ \E q \in Pushes : push[q] # None

(* A push reads the server's status after it stored the target, under no   *)
(* lock that orders it with the sweep's read.                              *)
PushReads(p) ==
    /\ push[p] = None /\ (ReadUnderWay => ReadsMayOverlap)
    /\ \E env \in ServerSays : push' = [push EXCEPT ![p] = [env |-> env]]
    /\ crossed' = (crossed \/ ReadUnderWay)
    /\ UNCHANGED <<made, record, tests, job, running, sweep, alarm>>

PushRecords(p) ==
    /\ push[p] # None
    /\ record' = Recorded(record, push[p].env)
    /\ push' = [push EXCEPT ![p] = None]
    /\ UNCHANGED <<made, tests, job, running, sweep, alarm, crossed>>

SweepAt(pc) == sweep.pc = pc
SweepTo(pc) == sweep' = [sweep EXCEPT !.pc = pc]

(* sweepBackups reads a server that discovery lists; without a listing it  *)
(* changes nothing.                                                        *)
SweepReads ==
    /\ SweepAt("idle") /\ (ReadUnderWay => ReadsMayOverlap)
    /\ \E env \in ServerSays : sweep' = [sweep EXCEPT !.pc = "record", !.env = env]
    /\ crossed' = (crossed \/ ReadUnderWay)
    /\ UNCHANGED <<made, record, tests, job, running, push, alarm>>

SweepRecords ==
    /\ SweepAt("record")
    /\ record' = Recorded(record, sweep.env)
    /\ sweep' = [sweep EXCEPT !.pc = "reconcile", !.env = None]
    /\ UNCHANGED <<made, tests, job, running, push, alarm, crossed>>

(* retireRemovedBackupServers, when discovery no longer lists the server:  *)
(* its record and tests go, and a run under way keeps its own copy of its  *)
(* test.  The incidents close outside the lock.                            *)
SweepForgets ==
    /\ SweepAt("idle")
    /\ record # None
    /\ record' = None
    /\ tests' = [d \in Databases |-> None]
    /\ job' = IF job = None THEN None ELSE [job EXCEPT !.orphan = TRUE]
    /\ sweep' = [sweep EXCEPT !.pc = "retire", !.rules = record.keys]
    /\ UNCHANGED <<made, running, push, alarm, crossed>>

SweepRetires ==
    /\ SweepAt("retire")
    /\ alarm' = alarm \ sweep.rules
    /\ sweep' = [sweep EXCEPT !.pc = "idle", !.rules = {}]
    /\ UNCHANGED <<made, record, tests, job, running, push, crossed>>

(* reconcileBackupTests: on fresh evidence what is covered has a test that *)
(* runs, and a test whose database is not covered is retired.              *)
Reconciled(t, cov) ==
    IF cov = "covered"
    THEN IF t = None THEN [retired |-> FALSE, green |-> FALSE] ELSE [t EXCEPT !.retired = FALSE]
    ELSE IF t = None THEN None ELSE [t EXCEPT !.retired = TRUE]

SweepReconciles ==
    /\ SweepAt("reconcile")
    /\ tests' = IF HeardFrom(record) THEN [d \in Databases |-> Reconciled(tests[d], record.status[d])]
                                 ELSE tests
    /\ SweepTo("evaluate")
    /\ UNCHANGED <<made, record, job, running, push, alarm, crossed>>

(* backupObservations: what a status says of each database, good or bad.   *)
Good(status) == {d \in Databases : status[d] \in {"covered", "stale"}}
Bad(status) == {d \in Databases : status[d] = "failing"}

(* evaluateBackupIncidents: stale evidence opens but closes nothing; fresh *)
(* evidence also retires the rules it no longer implies.                   *)
SweepEvaluates ==
    /\ SweepAt("evaluate")
    /\ IF record = None \/ record.status = None
       THEN UNCHANGED <<record, alarm>>
       ELSE LET good == Good(record.status)
                bad == Bad(record.status)
            IN  IF HeardFrom(record)
                THEN /\ alarm' = (alarm \cup bad) \ (good \cup (record.keys \ bad))
                     /\ record' = [record EXCEPT !.keys = good \cup bad]
                ELSE /\ alarm' = alarm \cup bad
                     /\ UNCHANGED record
    /\ SweepTo("idle")
    /\ UNCHANGED <<made, tests, job, running, push, crossed>>

-----------------------------------------------------------------------------
(* Automatic restore tests.                                                *)

JobIn(pc) == job # None /\ job.pc = pc
JobOnly == UNCHANGED <<made, record, sweep, push, alarm, crossed>>

(* tickBackupTests, inside the window: one due test of a server that runs  *)
(* none is claimed, and its goroutine starts.                              *)
TickTests(d) ==
    /\ tests[d] # None /\ ~tests[d].retired
    /\ ~running
    /\ running' = TRUE
    /\ job' = [db |-> d, pc |-> "check", orphan |-> FALSE]
    /\ JobOnly /\ UNCHANGED tests

Outcome(green) == tests' = IF job.orphan THEN tests ELSE [tests EXCEPT ![job.db].green = green]

(* runBackupTest: with stale evidence, an unknown server or too little     *)
(* room the run is put off, and the skip is its outcome (deferBackupTest). *)
JobChecks ==
    /\ JobIn("check")
    /\ \/ HeardFrom(record) /\ job' = [job EXCEPT !.pc = "verify"] /\ UNCHANGED tests
       \/ job' = [job EXCEPT !.pc = "release"] /\ Outcome(FALSE)
    /\ JobOnly /\ UNCHANGED running

JobVerifies(ok) ==
    /\ JobIn("verify")
    /\ job' = [job EXCEPT !.pc = "release"]
    /\ Outcome(ok)
    /\ JobOnly /\ UNCHANGED running

JobReleases ==
    /\ JobIn("release")
    /\ job' = None
    /\ running' = FALSE
    /\ JobOnly /\ UNCHANGED tests

-----------------------------------------------------------------------------
WatchInit ==
    /\ made = [d \in Databases |-> 0]
    /\ record = None
    /\ tests = [d \in Databases |-> None]
    /\ job = None
    /\ running = FALSE
    /\ sweep = [pc |-> "idle", env |-> None, rules |-> {}]
    /\ push = [p \in Pushes |-> None]
    /\ alarm = {}
    /\ crossed = FALSE

SweepStep == \/ SweepReads \/ SweepRecords \/ SweepForgets \/ SweepRetires
             \/ SweepReconciles \/ SweepEvaluates
JobStep == JobChecks \/ (\E ok \in BOOLEAN : JobVerifies(ok)) \/ JobReleases

WatchNext ==
    \/ \E d \in Databases : BackupRuns(d) \/ TickTests(d)
    \/ \E p \in Pushes : PushReads(p) \/ PushRecords(p)
    \/ SweepStep \/ JobStep

WatchSpec == WatchInit /\ [][WatchNext]_watchVars

-----------------------------------------------------------------------------
(* Properties                                                              *)

WatchTypeOK ==
    /\ made \in [Databases -> 0..MaxKey]
    /\ running \in BOOLEAN /\ crossed \in BOOLEAN
    /\ record \in Record \cup {None}
    /\ tests \in [Databases -> AutoTest \cup {None}]
    /\ job \in Job \cup {None}
    /\ sweep \in BackupSweep /\ push \in [Pushes -> Push \cup {None}]
    /\ alarm \subseteq Databases

(* migrationViewLocked: the hand-written job of d may be removed.          *)
MigrationReady(d) ==
    /\ record # None /\ record.status # None /\ record.status[d] # "gone"
    /\ record.mig[d] # None /\ record.mig[d].good >= 2
    /\ tests[d] # None /\ ~tests[d].retired /\ tests[d].green

(* The page says that an old backup job can go only when the server made   *)
(* two new backups of the database, one after the other, since the first   *)
(* that Dash saw and since the last failing one (backupMigrateView).       *)
ReadyMeansTwoBackups ==
    \A d \in Databases : MigrationReady(d) => made[d] - record.mig[d].from >= 2

(* It does so as long as no push read the server while the sweep did.      *)
ReadyWhenReadsInOrder == ~crossed => ReadyMeansTwoBackups

(* One verification per server at a time, and the claim it holds ends with *)
(* it (tickBackupTests).                                                   *)
OneVerification == running <=> job # None
=============================================================================
