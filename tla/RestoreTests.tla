---------------------------- MODULE RestoreTests ----------------------------
(***************************************************************************)
(* The restore-test runner with its part of the store: schedules, the      *)
(* claim a run holds, results committed by compare-and-set, and the        *)
(* requests that change, run and delete a test.  One action per critical   *)
(* section of the runner, the store or the tracker.                        *)
(***************************************************************************)
EXTENDS Absence, Integers, FiniteSets

CONSTANTS
    RestoreIds,     \* restore tests
    Targets,        \* what a test verifies: server, app and accessory
    Nonces,         \* incarnations, each drawn once
    Edits,          \* requests that may be under way together
    Runs            \* schedules and manual runs that may be alive together

VARIABLES
    testFile,       \* restore-tests/<id>.json
    drawn,          \* nonces drawn so far
    run,            \* goroutines of startTest and callers of RunNow
    claimed,        \* Runner.running
    edit,           \* handlers between two of their calls
    rstStopped,     \* Runner.stopped
    failing         \* restore tests with an open incident

restoreVars == <<testFile, drawn, run, claimed, edit, rstStopped, failing>>

(* A stored test, with the target its verdict was measured against (of).   *)
Identities == [inc: Nonces, target: Targets]
Test == [inc: Nonces, target: Targets, on: BOOLEAN, verdict: {None, "ok", "bad"},
         of: Identities \cup {None}]
Identity(f) == [inc |-> f.inc, target |-> f.target]

Run == [id: RestoreIds, cfg: Identities \cup {None}, armed: BOOLEAN, manual: BOOLEAN, ok: BOOLEAN,
        pc: {"wait", "claim", "verify", "save", "report", "release"}]
Edit == [id: RestoreIds, on: BOOLEAN, pc: {"read", "stop", "start", "retire", "remove", "closing", "delete"}]

ASSUME RestoreConstants == None \notin RestoreIds \cup Targets \cup Nonces \cup Run

On(g, pc) == run[g] # None /\ run[g].pc = pc
GoOn(g, pc) == run' = [run EXCEPT ![g].pc = pc]
Doing(e, pc) == edit[e] # None /\ edit[e].pc = pc
Next2(e, pc) == edit' = [edit EXCEPT ![e].pc = pc]
Done(e) == edit' = [edit EXCEPT ![e] = None]

-----------------------------------------------------------------------------
(* Runs.  A schedule reads the stored test each time its timer fires.      *)

(* teardownLocked closes stopCh: a waiting schedule ends, a running one    *)
(* finishes its run and then ends.                                         *)
Disarm(id) == [g \in Runs |->
    IF run[g] = None \/ run[g].id # id \/ run[g].manual THEN run[g]
    ELSE IF run[g].pc = "wait" THEN None ELSE [run[g] EXCEPT !.armed = FALSE]]

Settle(g) == IF run[g].armed /\ ~run[g].manual
             THEN [run[g] EXCEPT !.pc = "wait", !.cfg = None, !.ok = FALSE] ELSE None
RunEnds(g) == run' = [run EXCEPT ![g] = Settle(g)]

RunOnly == UNCHANGED <<testFile, drawn, claimed, edit, rstStopped, failing>>

TimerFires(g) ==
    /\ On(g, "wait")
    /\ testFile[run[g].id] # None /\ testFile[run[g].id].on
    /\ run' = [run EXCEPT ![g].pc = "claim", ![g].cfg = Identity(testFile[run[g].id])]
    /\ RunOnly

(* POST .../run reads the test, enabled or not.                            *)
RunByHand(g, id) ==
    /\ run[g] = None /\ testFile[id] # None
    /\ run' = [run EXCEPT ![g] = [id |-> id, cfg |-> Identity(testFile[id]), armed |-> FALSE,
                                  manual |-> TRUE, ok |-> FALSE, pc |-> "claim"]]
    /\ RunOnly

(* RunNow: refused when stopped or when a run of this test is in flight.   *)
ClaimRun(g) ==
    /\ On(g, "claim")
    /\ IF rstStopped \/ run[g].id \in claimed
       THEN RunEnds(g) /\ UNCHANGED claimed
       ELSE GoOn(g, "verify") /\ claimed' = claimed \cup {run[g].id}
    /\ UNCHANGED <<testFile, drawn, edit, rstStopped, failing>>

(* The CLI's verdict; every failure to obtain one is a failed run.         *)
Verify(g, ok) ==
    /\ On(g, "verify")
    /\ run' = [run EXCEPT ![g].pc = "save", ![g].ok = ok]
    /\ RunOnly

(* Mutant: the target is not compared.                                     *)
ResultFitsIncarnation(g) == testFile[run[g].id] # None

ResultFits(g) ==
    LET f == testFile[run[g].id] IN f # None /\ Identity(f) = run[g].cfg

(* SaveRestoreTestResult: only onto the test the run was started for; a    *)
(* failing write reports nothing.                                          *)
SaveResult(g) ==
    /\ On(g, "save")
    /\ \/ /\ ResultFits(g)
          /\ testFile' = [testFile EXCEPT ![run[g].id].verdict = IF run[g].ok THEN "ok" ELSE "bad",
                                          ![run[g].id].of = run[g].cfg]
          /\ GoOn(g, "report")
       \/ GoOn(g, "release") /\ UNCHANGED testFile
    /\ UNCHANGED <<drawn, claimed, edit, rstStopped, failing>>

(* The tracker is fed outside the runner's lock.                           *)
Report(g) ==
    /\ On(g, "report")
    /\ failing' = IF run[g].ok THEN failing \ {run[g].id} ELSE failing \cup {run[g].id}
    /\ GoOn(g, "release")
    /\ UNCHANGED <<testFile, drawn, claimed, edit, rstStopped>>

ReleaseClaim(g) ==
    /\ On(g, "release")
    /\ claimed' = claimed \ {run[g].id}
    /\ RunEnds(g)
    /\ UNCHANGED <<testFile, drawn, edit, rstStopped, failing>>

-----------------------------------------------------------------------------
(* Requests.                                                               *)

EditOnly == UNCHANGED <<testFile, drawn, run, claimed, rstStopped, failing>>
Begin(e, id, pc) == /\ edit[e] = None
                    /\ edit' = [edit EXCEPT ![e] = [id |-> id, on |-> FALSE, pc |-> pc]]

(* POST: SaveRestoreTest keeps the incarnation and the verdict when the    *)
(* target stays, and draws a new incarnation when it changes.              *)
PostTest(e, id, target, on, nonce) ==
    LET f == testFile[id]
        same == f # None /\ f.target = target
    IN
    /\ nonce \notin drawn
    /\ drawn' = IF same THEN drawn ELSE drawn \cup {nonce}
    /\ testFile' = [testFile EXCEPT ![id] =
         IF same THEN [f EXCEPT !.on = on]
         ELSE [inc |-> nonce, target |-> target, on |-> on, verdict |-> None, of |-> None]]
    /\ Begin(e, id, "read")
    /\ UNCHANGED <<run, claimed, rstStopped, failing>>

(* It reads the stored test back, then stops the schedule and starts the   *)
(* new one or retires the incident.                                        *)
ReadBack(e) ==
    /\ Doing(e, "read")
    /\ IF testFile[edit[e].id] = None THEN Done(e)
       ELSE edit' = [edit EXCEPT ![e].pc = "stop", ![e].on = testFile[edit[e].id].on]
    /\ EditOnly

StopSchedule(e) ==
    /\ Doing(e, "stop")
    /\ run' = Disarm(edit[e].id)
    /\ Next2(e, IF edit[e].on THEN "start" ELSE "retire")
    /\ UNCHANGED <<testFile, drawn, claimed, rstStopped, failing>>

StartSchedule(e, g) ==
    /\ Doing(e, "start")
    /\ IF rstStopped THEN UNCHANGED run
       ELSE /\ run[g] = None
            /\ run' = [Disarm(edit[e].id) EXCEPT ![g] =
                 [id |-> edit[e].id, cfg |-> None, armed |-> TRUE, manual |-> FALSE, ok |-> FALSE, pc |-> "wait"]]
    /\ Done(e)
    /\ UNCHANGED <<testFile, drawn, claimed, rstStopped, failing>>

(* Retiring the incident is a call of its own, after the schedule is gone. *)
RetireTest(e) ==
    /\ \/ Doing(e, "retire") /\ Done(e)
       \/ Doing(e, "closing") /\ Next2(e, "delete")
    /\ failing' = failing \ {edit[e].id}
    /\ UNCHANGED <<testFile, drawn, run, claimed, rstStopped>>

(* DELETE: the runner forgets the test, its incident is retired, then the  *)
(* file is removed, which may fail.                                        *)
DeleteTest(e, id) == Begin(e, id, "remove") /\ EditOnly

RemoveTest(e) ==
    /\ Doing(e, "remove")
    /\ run' = Disarm(edit[e].id)
    /\ Next2(e, "closing")
    /\ UNCHANGED <<testFile, drawn, claimed, rstStopped, failing>>

DeleteFile(e) ==
    /\ Doing(e, "delete")
    /\ \/ testFile' = [testFile EXCEPT ![edit[e].id] = None]
       \/ UNCHANGED testFile
    /\ Done(e)
    /\ UNCHANGED <<drawn, run, claimed, rstStopped, failing>>

(* Stop cancels the runs' context: a run in flight fails and is recorded.  *)
StopTests ==
    /\ ~rstStopped
    /\ rstStopped' = TRUE
    /\ run' = [g \in Runs |-> IF run[g] = None \/ On(g, "wait") THEN None
                              ELSE [run[g] EXCEPT !.armed = FALSE]]
    /\ UNCHANGED <<testFile, drawn, claimed, edit, failing>>

(* The process ends anywhere and starts again: no claims, and one schedule *)
(* per enabled test.                                                       *)
TestsRestart ==
    /\ rstStopped' = FALSE
    /\ claimed' = {}
    /\ edit' = [e \in Edits |-> None]
    /\ \E place \in [{id \in RestoreIds : testFile[id] # None /\ testFile[id].on} -> Runs] :
         /\ \A i, j \in DOMAIN place : place[i] = place[j] => i = j
         /\ run' = [g \in Runs |->
              IF \E id \in DOMAIN place : place[id] = g
              THEN [id |-> CHOOSE id \in DOMAIN place : place[id] = g, cfg |-> None, armed |-> TRUE,
                    manual |-> FALSE, ok |-> FALSE, pc |-> "wait"]
              ELSE None]
    /\ UNCHANGED <<testFile, drawn, failing>>

-----------------------------------------------------------------------------
RestoreInit ==
    /\ testFile = [id \in RestoreIds |-> None]
    /\ drawn = {}
    /\ run = [g \in Runs |-> None]
    /\ claimed = {}
    /\ edit = [e \in Edits |-> None]
    /\ rstStopped = FALSE
    /\ failing = {}

RunStep(g) ==
    \/ TimerFires(g) \/ ClaimRun(g) \/ SaveResult(g) \/ Report(g) \/ ReleaseClaim(g)
    \/ \E ok \in BOOLEAN : Verify(g, ok)
    \/ \E id \in RestoreIds : RunByHand(g, id)

EditStep(e) ==
    \/ ReadBack(e) \/ StopSchedule(e) \/ RetireTest(e) \/ RemoveTest(e) \/ DeleteFile(e)
    \/ \E g \in Runs : StartSchedule(e, g)
    \/ \E id \in RestoreIds : DeleteTest(e, id)
    \/ \E id \in RestoreIds, target \in Targets, on \in BOOLEAN, nonce \in Nonces :
          PostTest(e, id, target, on, nonce)

RestoreNext ==
    \/ \E g \in Runs : RunStep(g)
    \/ \E e \in Edits : EditStep(e)
    \/ StopTests \/ TestsRestart

RestoreSpec == RestoreInit /\ [][RestoreNext]_restoreVars

-----------------------------------------------------------------------------
(* Properties                                                              *)

RestoreTypeOK ==
    /\ testFile \in [RestoreIds -> Test \cup {None}]
    /\ drawn \subseteq Nonces
    /\ run \in [Runs -> Run \cup {None}]
    /\ claimed \subseteq RestoreIds /\ failing \subseteq RestoreIds
    /\ edit \in [Edits -> Edit \cup {None}]
    /\ rstStopped \in BOOLEAN

(* A stored verdict was measured against the very target the test now has, *)
(* and in the same life of the test: a retargeted, deleted or recreated    *)
(* test never shows the result of a run started before (A24, F037).        *)
VerdictIsOfTarget ==
    \A id \in RestoreIds : testFile[id] # None /\ testFile[id].verdict # None =>
        testFile[id].of = Identity(testFile[id])

(* The runs of a test that hold its claim.                                 *)
Verifying(id) == {g \in Runs : run[g] # None /\ run[g].id = id
                               /\ run[g].pc \in {"verify", "save", "report", "release"}}

(* A test is verified by one run at a time, by hand and on schedule, and   *)
(* its claim is held exactly as long (RunNow).                             *)
OneRunPerTest ==
    \A id \in RestoreIds : /\ Cardinality(Verifying(id)) <= 1
                           /\ id \in claimed <=> Verifying(id) # {}

(* Deleting a test ends its incident: once no request and no run of it is  *)
(* left, an id without a test has no open incident (Remove).               *)
RemovedIsClosed ==
    \A id \in failing : \/ testFile[id] # None
                       \/ Verifying(id) # {}
                       \/ \E e \in Edits : edit[e] # None /\ edit[e].id = id
=============================================================================
