-------------------------- MODULE Services_proofs ---------------------------
(***************************************************************************)
(* Proofs about the dashboard's services, one after the other, and about   *)
(* the specification in which they all run; the backups and the event      *)
(* history have modules of their own.                                      *)
(***************************************************************************)
EXTENDS Services, Backups_proofs, OperationJournal_proofs, TLAPS

-----------------------------------------------------------------------------
(* Restore tests: a schedule, a run and its verdict.                       *)
-----------------------------------------------------------------------------

(* A run past the claim holds it until it releases it.                     *)
Holding(g) == run[g] # None /\ run[g].pc \in {"verify", "save", "report", "release"}

(* A claim is held by one run, and every run past the claim holds its own. *)
ClaimsHeld ==
    /\ \A g, h \in Runs : Holding(g) /\ Holding(h) /\ run[g].id = run[h].id => g = h
    /\ \A g \in Runs : Holding(g) => run[g].id \in claimed
    /\ \A id \in claimed : \E g \in Runs : Holding(g) /\ run[g].id = id

RestoreInv == RestoreTypeOK /\ VerdictIsOfTarget /\ ClaimsHeld

-----------------------------------------------------------------------------
(* Types                                                                   *)

LEMMA DisarmTyped ==
    ASSUME RestoreTypeOK, NEW id \in RestoreIds
    PROVE  Disarm(id) \in [Runs -> Run \cup {None}]
  <1> DEFINE armed == FALSE
  <1>1. armed \in BOOLEAN
    OBVIOUS
  <1>2. \A r \in Run : [r EXCEPT !.armed = armed] \in Run
    <2> HIDE DEF armed
    <2> QED BY <1>1 DEF Run
  <1> HIDE DEF armed
  <1>3. Disarm(id) = [g \in Runs |->
            IF run[g] = None \/ run[g].id # id \/ run[g].manual THEN run[g]
            ELSE IF run[g].pc = "wait" THEN None ELSE [run[g] EXCEPT !.armed = armed]]
    BY Zenon DEF Disarm, armed
  <1> QED BY <1>2, <1>3 DEF RestoreTypeOK

(* A run that settles is a run or none.                                    *)
LEMMA SettleTyped ==
    ASSUME RestoreTypeOK, NEW g \in Runs, run[g] # None
    PROVE  Settle(g) \in Run \cup {None}
  <1> DEFINE ok == FALSE
  <1>1. ok \in BOOLEAN
    OBVIOUS
  <1>2. \A r \in Run : [r EXCEPT !.pc = "wait", !.cfg = None, !.ok = ok] \in Run
    <2> HIDE DEF ok
    <2> QED BY <1>1 DEF Run
  <1> HIDE DEF ok
  <1>3. Settle(g) \in {None, [run[g] EXCEPT !.pc = "wait", !.cfg = None, !.ok = ok]}
    BY DEF Settle, ok
  <1> QED BY <1>2, <1>3 DEF RestoreTypeOK

(* What identifies a test is an identity.                                  *)
LEMMA IdentityTyped ==
    ASSUME NEW f \in Test
    PROVE  Identity(f) \in Identities
  BY DEF Test, Identity, Identities

(* A run's step keeps the types.                                           *)
LEMMA RunStepTyped ==
    ASSUME RestoreTypeOK, NEW g \in Runs, RunStep(g)
    PROVE  RestoreTypeOK'
  <1> USE DEF RestoreTypeOK
  <1>1. CASE TimerFires(g)
    <2>1. run[g] \in Run /\ run[g].id \in RestoreIds
      BY <1>1 DEF TimerFires, On, Run
    <2>2. Identity(testFile[run[g].id]) \in Identities
      BY <1>1, <2>1, IdentityTyped DEF TimerFires
    <2>3. run' \in [Runs -> Run \cup {None}]
      BY <1>1, <2>1, <2>2 DEF TimerFires, Run
    <2> QED BY <1>1, <2>3 DEF TimerFires, RunOnly
  <1>2. CASE ClaimRun(g)
    <2>1. run[g] \in Run /\ run[g].id \in RestoreIds
      BY <1>2 DEF ClaimRun, On, Run
    <2>2. run' \in [Runs -> Run \cup {None}]
      BY <1>2, <2>1, SettleTyped, SMTT(30) DEF ClaimRun, On, RunEnds, GoOn, Run
    <2> QED BY <1>2, <2>1, <2>2 DEF ClaimRun
  <1>3. ASSUME NEW ok \in BOOLEAN, Verify(g, ok) PROVE RestoreTypeOK'
    <2> DEFINE save == "save"
    <2>1. /\ run[g] \in Run /\ run' = [run EXCEPT ![g].pc = save, ![g].ok = ok]
          /\ UNCHANGED <<testFile, drawn, claimed, failing, edit, rstStopped>>
      BY <1>3 DEF Verify, On, RunOnly
    <2>2. save \in {"wait", "claim", "verify", "save", "report", "release"}
      OBVIOUS
    <2> HIDE DEF save
    <2>3. run' \in [Runs -> Run \cup {None}]
      BY <2>1, <2>2 DEF Run
    <2> QED BY <2>1, <2>3
  <1>4. ASSUME NEW id \in RestoreIds, RunByHand(g, id) PROVE RestoreTypeOK'
    <2>1. Identity(testFile[id]) \in Identities
      BY <1>4, IdentityTyped DEF RunByHand
    <2> DEFINE manual == TRUE
    <2>2. manual \in BOOLEAN
      OBVIOUS
    <2>3. [id |-> id, cfg |-> Identity(testFile[id]), armed |-> ~manual, manual |-> manual,
           ok |-> ~manual, pc |-> "claim"] \in Run
      <3> HIDE DEF manual
      <3> QED BY <2>1, <2>2 DEF Run
    <2> QED BY <1>4, <2>3 DEF RunByHand, RunOnly
  <1>5. CASE SaveResult(g)
    <2>1. run[g] \in Run /\ run[g].id \in RestoreIds /\ run[g].cfg \in Identities \cup {None}
      BY <1>5 DEF SaveResult, On, Run
    <2>2. run' \in [Runs -> Run \cup {None}]
      BY <1>5, <2>1 DEF SaveResult, GoOn, Run
    <2>3. testFile' \in [RestoreIds -> Test \cup {None}]
      BY <1>5, <2>1 DEF SaveResult, ResultFits, Test
    <2> QED BY <1>5, <2>2, <2>3 DEF SaveResult
  <1>6. CASE Report(g)
    BY <1>6 DEF Report, On, GoOn, Run
  <1>7. CASE ReleaseClaim(g)
    <2>1. run' \in [Runs -> Run \cup {None}]
      BY <1>7, SettleTyped DEF ReleaseClaim, On, RunEnds
    <2> QED BY <1>7, <2>1 DEF ReleaseClaim
  <1> QED BY <1>1, <1>2, <1>3, <1>4, <1>5, <1>6, <1>7 DEF RunStep

(* An edit's step keeps the types.                                         *)
LEMMA EditStepTyped ==
    ASSUME RestoreTypeOK, NEW e \in Edits, EditStep(e)
    PROVE  RestoreTypeOK'
  <1> USE DEF RestoreTypeOK
  <1>1. CASE ReadBack(e)
    BY <1>1 DEF ReadBack, Doing, Done, EditOnly, Edit, Test
  <1>2. CASE StopSchedule(e)
    <2>1. edit[e] \in Edit /\ edit[e].id \in RestoreIds
      BY <1>2 DEF StopSchedule, Doing, Edit
    <2>2. edit' \in [Edits -> Edit \cup {None}]
      BY <1>2, <2>1 DEF StopSchedule, Next2, Edit
    <2> QED BY <1>2, <2>1, <2>2, DisarmTyped DEF StopSchedule
  <1>3. ASSUME NEW g \in Runs, StartSchedule(e, g) PROVE RestoreTypeOK'
    <2>1. edit[e] \in Edit /\ edit[e].id \in RestoreIds
      BY <1>3 DEF StartSchedule, Doing, Edit
    <2> DEFINE armed == TRUE
    <2>2. armed \in BOOLEAN
      OBVIOUS
    <2>3. [id |-> edit[e].id, cfg |-> None, armed |-> armed, manual |-> ~armed, ok |-> ~armed,
           pc |-> "wait"] \in Run
      <3> HIDE DEF armed
      <3> QED BY <2>1, <2>2 DEF Run
    <2>4. run' \in [Runs -> Run \cup {None}]
      BY <1>3, <2>1, <2>3, DisarmTyped DEF StartSchedule
    <2> QED BY <1>3, <2>4 DEF StartSchedule, Done
  <1>4. CASE RetireTest(e)
    BY <1>4 DEF RetireTest, Doing, Done, Next2, Edit
  <1>5. CASE RemoveTest(e)
    <2>1. edit[e] \in Edit /\ edit[e].id \in RestoreIds
      BY <1>5 DEF RemoveTest, Doing, Edit
    <2>2. edit' \in [Edits -> Edit \cup {None}]
      BY <1>5, <2>1 DEF RemoveTest, Next2, Edit
    <2> QED BY <1>5, <2>1, <2>2, DisarmTyped DEF RemoveTest
  <1>6. CASE DeleteFile(e)
    BY <1>6 DEF DeleteFile, Doing, Done, Edit
  <1>7. ASSUME NEW id \in RestoreIds, NEW pc \in {"read", "remove"}, Begin(e, id, pc)
        PROVE  edit' \in [Edits -> Edit \cup {None}]
    <2> DEFINE on == FALSE
    <2>1. on \in BOOLEAN
      OBVIOUS
    <2>2. [id |-> id, on |-> on, pc |-> pc] \in Edit
      <3> HIDE DEF on
      <3> QED BY <2>1 DEF Edit
    <2> QED BY <1>7, <2>2 DEF Begin
  <1>8. ASSUME NEW id \in RestoreIds, DeleteTest(e, id) PROVE RestoreTypeOK'
    BY <1>7, <1>8 DEF DeleteTest, EditOnly
  <1>9. ASSUME NEW id \in RestoreIds, NEW target \in Targets, NEW on \in BOOLEAN,
               NEW nonce \in Nonces, PostTest(e, id, target, on, nonce)
        PROVE  RestoreTypeOK'
    <2>1. testFile' \in [RestoreIds -> Test \cup {None}]
      BY <1>9 DEF PostTest, Test
    <2> QED BY <1>7, <1>9, <2>1 DEF PostTest
  <1> QED BY <1>1, <1>2, <1>3, <1>4, <1>5, <1>6, <1>8, <1>9 DEF EditStep

(* Stopping and restarting keep the types.                                 *)
LEMMA StopTyped == RestoreTypeOK /\ (StopTests \/ TestsRestart) => RestoreTypeOK'
  <1> SUFFICES ASSUME RestoreTypeOK, StopTests \/ TestsRestart PROVE RestoreTypeOK'
    OBVIOUS
  <1>1. CASE StopTests
    BY <1>1 DEF StopTests, RestoreTypeOK, Run
  <1>2. CASE TestsRestart
    <2> DEFINE enabled == {id \in RestoreIds : testFile[id] # None /\ testFile[id].on}
               yes == TRUE
               no == FALSE
    <2>1. {yes, no} \subseteq BOOLEAN
      OBVIOUS
    <2>2. \A id \in RestoreIds : [id |-> id, cfg |-> None, armed |-> yes, manual |-> no,
                                  ok |-> no, pc |-> "wait"] \in Run
      <3> HIDE DEF yes, no
      <3> QED BY <2>1 DEF Run
    <2>3. run' \in [Runs -> Run \cup {None}]
      <3>1. PICK place \in [enabled -> Runs] :
              run' = [g \in Runs |->
                IF \E id \in DOMAIN place : place[id] = g
                THEN [id |-> CHOOSE id \in DOMAIN place : place[id] = g, cfg |-> None, armed |-> yes,
                      manual |-> no, ok |-> no, pc |-> "wait"]
                ELSE None]
        BY <1>2, Zenon DEF TestsRestart
      <3>2. DOMAIN place \subseteq RestoreIds
        OBVIOUS
      <3> HIDE DEF yes, no, enabled
      <3> QED BY <2>2, <3>1, <3>2
    <2>4. rstStopped' \in BOOLEAN
      BY <1>2, Zenon DEF TestsRestart
    <2>5. edit' \in [Edits -> Edit \cup {None}]
      BY <1>2 DEF TestsRestart
    <2> QED BY <1>2, <2>3, <2>4, <2>5, Zenon DEF TestsRestart, RestoreTypeOK
  <1> QED BY <1>1, <1>2
(* Every step of the restore tests keeps the types.                        *)
LEMMA RestoreTyping == RestoreTypeOK /\ [RestoreNext]_restoreVars => RestoreTypeOK'
  <1> SUFFICES ASSUME RestoreTypeOK, [RestoreNext]_restoreVars PROVE RestoreTypeOK'
    OBVIOUS
  <1>1. CASE UNCHANGED restoreVars
    BY <1>1 DEF restoreVars, RestoreTypeOK
  <1> QED BY <1>1, RunStepTyped, EditStepTyped, StopTyped DEF RestoreNext

-----------------------------------------------------------------------------
(* Verdicts                                                                *)

(* Only SaveResult and PostTest write a test that stays.                   *)
LEMMA VerdictStep ==
    ASSUME RestoreTypeOK, VerdictIsOfTarget, [RestoreNext]_restoreVars
    PROVE  VerdictIsOfTarget'
  <1> USE DEF VerdictIsOfTarget, RestoreTypeOK
  <1>1. ASSUME UNCHANGED testFile PROVE VerdictIsOfTarget'
    BY <1>1 DEF Identity
  <1>2. ASSUME NEW g \in Runs, SaveResult(g) PROVE VerdictIsOfTarget'
    BY <1>1, <1>2 DEF SaveResult, ResultFits, On, Run, Test, Identity
  <1>3. ASSUME NEW e \in Edits, DeleteFile(e) PROVE VerdictIsOfTarget'
    BY <1>1, <1>3 DEF DeleteFile, Doing, Edit, Identity
  <1>4. ASSUME NEW e \in Edits, NEW id \in RestoreIds, NEW target \in Targets, NEW on \in BOOLEAN,
               NEW nonce \in Nonces, PostTest(e, id, target, on, nonce)
        PROVE  VerdictIsOfTarget'
    BY <1>4 DEF PostTest, Test, Identity
  <1>5. ASSUME NEW g \in Runs, RunStep(g) PROVE VerdictIsOfTarget'
    BY <1>1, <1>2, <1>5
       DEF RunStep, TimerFires, ClaimRun, Report, ReleaseClaim, Verify, RunByHand, RunOnly
  <1>6. ASSUME NEW e \in Edits, EditStep(e) PROVE VerdictIsOfTarget'
    BY <1>1, <1>3, <1>4, <1>6
       DEF EditStep, ReadBack, StopSchedule, RetireTest, RemoveTest, StartSchedule, DeleteTest, EditOnly
  <1>7. CASE StopTests \/ TestsRestart \/ UNCHANGED restoreVars
    BY <1>1, <1>7 DEF StopTests, TestsRestart, restoreVars
  <1> QED BY <1>5, <1>6, <1>7 DEF RestoreNext

-----------------------------------------------------------------------------
(* Claims                                                                  *)

(* A step that leaves the claims and what the holders carry keeps them.    *)
LEMMA SameHolders ==
    ASSUME ClaimsHeld, claimed' = claimed,
           \A g \in Runs : Holding(g)' <=> Holding(g),
           \A g \in Runs : Holding(g) => run'[g].id = run[g].id
    PROVE  ClaimsHeld'
  BY DEF ClaimsHeld

(* Disarm drops waiting schedules and disarms the others.                  *)
LEMMA DisarmEffect ==
    ASSUME RestoreTypeOK, NEW id \in RestoreIds, NEW g \in Runs
    PROVE  \/ Disarm(id)[g] = run[g]
           \/ run[g] # None /\ run[g].pc = "wait" /\ Disarm(id)[g] = None
           \/ /\ {run[g], Disarm(id)[g]} \subseteq Run
              /\ Disarm(id)[g].pc = run[g].pc /\ Disarm(id)[g].id = run[g].id
  <1> DEFINE armed == FALSE
  <1>1. Disarm(id)[g] = IF run[g] = None \/ run[g].id # id \/ run[g].manual THEN run[g]
                        ELSE IF run[g].pc = "wait" THEN None ELSE [run[g] EXCEPT !.armed = armed]
    BY DEF Disarm
  <1>2. armed \in BOOLEAN
    OBVIOUS
  <1> HIDE DEF armed
  <1>3. \A r \in Run : /\ [r EXCEPT !.armed = armed] \in Run
                        /\ [r EXCEPT !.armed = armed].pc = r.pc
                        /\ [r EXCEPT !.armed = armed].id = r.id
    BY <1>2 DEF Run
  <1> QED BY <1>1, <1>3 DEF RestoreTypeOK

(* Disarming a test leaves every claim with its holder.                    *)
LEMMA DisarmHolders ==
    ASSUME RestoreTypeOK, ClaimsHeld, NEW id \in RestoreIds, run' = Disarm(id), claimed' = claimed
    PROVE  ClaimsHeld'
  <1>1. \A g \in Runs : /\ Holding(g)' <=> Holding(g)
                        /\ Holding(g) => run'[g].id = run[g].id
    BY DisarmEffect, RestoreConstants DEF Holding, RestoreConstants
  <1> QED BY <1>1, SameHolders

(* A step of one run that neither takes nor releases a claim.              *)
LEMMA OneRunMoves ==
    ASSUME ClaimsHeld, claimed' = claimed, NEW g \in Runs,
           \A h \in Runs : h # g => run'[h] = run[h],
           Holding(g)' <=> Holding(g),
           Holding(g) => run'[g].id = run[g].id
    PROVE  ClaimsHeld'
  <1>1. \A h \in Runs : /\ Holding(h)' <=> Holding(h)
                        /\ Holding(h) => run'[h].id = run[h].id
    BY DEF Holding
  <1> QED BY <1>1, SameHolders

(* A run that goes on keeps its test, and no other run moves.              *)
LEMMA GoOnKeeps ==
    ASSUME RestoreTypeOK, NEW g \in Runs, run[g] # None, NEW pc, GoOn(g, pc),
           pc \in {"claim", "verify", "save", "report", "release"}
    PROVE  /\ run'[g] # None /\ run'[g].pc = pc /\ run'[g].id = run[g].id
           /\ \A h \in Runs : h # g => run'[h] = run[h]
  <1>1. run[g] \in Run
    BY DEF RestoreTypeOK
  <1>2. [run[g] EXCEPT !.pc = pc] \in Run
    BY <1>1 DEF Run
  <1>3. run'[g] = [run[g] EXCEPT !.pc = pc]
    BY DEF GoOn, RestoreTypeOK
  <1>4. [run[g] EXCEPT !.pc = pc].pc = pc /\ [run[g] EXCEPT !.pc = pc].id = run[g].id
    BY <1>1 DEF Run
  <1> QED BY <1>2, <1>3, <1>4, RestoreConstants DEF GoOn, RestoreTypeOK, RestoreConstants

(* A settled run is gone or waits for its timer.                           *)
LEMMA SettleHolds ==
    ASSUME RestoreTypeOK, NEW g \in Runs, run[g] # None
    PROVE  Settle(g) = None \/ Settle(g).pc = "wait"
  <1>1. run[g] \in Run
    BY DEF RestoreTypeOK
  <1>2. \A ok : [run[g] EXCEPT !.pc = "wait", !.cfg = None, !.ok = ok].pc = "wait"
    BY <1>1 DEF Run
  <1> QED BY <1>2 DEF Settle

(* Every step leaves each claim with the one run that holds it.            *)
LEMMA ClaimsStep ==
    ASSUME RestoreTypeOK, ClaimsHeld, [RestoreNext]_restoreVars
    PROVE  ClaimsHeld'
  <1>1. ASSUME NEW g \in Runs, RunStep(g) PROVE ClaimsHeld'
    <2> USE DEF RestoreTypeOK, Holding
    <2>1. CASE TimerFires(g)
      <3>1. run[g] \in Run /\ ~Holding(g) /\ claimed' = claimed
        BY <2>1 DEF TimerFires, On, RunOnly
      <3>2. ~Holding(g)' /\ \A h \in Runs : h # g => run'[h] = run[h]
        BY <2>1, <3>1 DEF TimerFires, Run
      <3> QED BY <3>1, <3>2, OneRunMoves
    <2>2. CASE ClaimRun(g)
      <3>1. run[g] \in Run /\ run[g] # None /\ ~Holding(g)
        BY <2>2 DEF ClaimRun, On
      <3>2. CASE rstStopped \/ run[g].id \in claimed
        <4>1. claimed' = claimed /\ run' = [run EXCEPT ![g] = Settle(g)]
          BY <2>2, <3>2 DEF ClaimRun, RunEnds
        <4>2. ~Holding(g)' /\ \A h \in Runs : h # g => run'[h] = run[h]
          BY <3>1, <4>1, SettleHolds
        <4> QED BY <3>1, <4>1, <4>2, OneRunMoves
      <3>3. CASE ~(rstStopped \/ run[g].id \in claimed)
        <4>1. claimed' = claimed \cup {run[g].id} /\ GoOn(g, "verify")
          BY <2>2, <3>3 DEF ClaimRun
        <4>2. /\ Holding(g)' /\ run'[g].id = run[g].id
              /\ \A h \in Runs : h # g => run'[h] = run[h]
          BY <3>1, <4>1, GoOnKeeps
        <4> QED BY <3>1, <3>3, <4>1, <4>2 DEF ClaimsHeld
      <3> QED BY <3>2, <3>3
    <2>3. ASSUME NEW ok \in BOOLEAN, Verify(g, ok) PROVE ClaimsHeld'
      <3>1. run[g] \in Run /\ Holding(g) /\ claimed' = claimed
        BY <2>3 DEF Verify, On, RunOnly
      <3>2. run'[g] = [run[g] EXCEPT !.pc = "save", !.ok = ok]
        BY <2>3 DEF Verify
      <3>3. run'[g] \in Run /\ run'[g].pc = "save" /\ run'[g].id = run[g].id
        BY <3>1, <3>2 DEF Run
      <3>4. Holding(g)' /\ \A h \in Runs : h # g => run'[h] = run[h]
        BY <2>3, <3>3, RestoreConstants DEF Verify, RestoreConstants
      <3> QED BY <3>1, <3>3, <3>4, OneRunMoves
    <2>4. ASSUME NEW id \in RestoreIds, RunByHand(g, id) PROVE ClaimsHeld'
      <3>1. ~Holding(g) /\ ~Holding(g)' /\ claimed' = claimed
        BY <2>4 DEF RunByHand, RunOnly
      <3>2. \A h \in Runs : h # g => run'[h] = run[h]
        BY <2>4 DEF RunByHand
      <3> QED BY <3>1, <3>2, OneRunMoves
    <2>5. CASE SaveResult(g) \/ Report(g)
      <3>1. run[g] # None /\ Holding(g) /\ claimed' = claimed
        BY <2>5 DEF SaveResult, Report, On
      <3>2. GoOn(g, "report") \/ GoOn(g, "release")
        BY <2>5 DEF SaveResult, Report
      <3>3. /\ Holding(g)' /\ run'[g].id = run[g].id
            /\ \A h \in Runs : h # g => run'[h] = run[h]
        BY <3>1, <3>2, GoOnKeeps
      <3> QED BY <3>1, <3>3, OneRunMoves
    <2>6. CASE ReleaseClaim(g)
      <3>1. run[g] # None /\ Holding(g) /\ claimed' = claimed \ {run[g].id}
        BY <2>6 DEF ReleaseClaim, On
      <3>2. ~Holding(g)' /\ \A h \in Runs : h # g => run'[h] = run[h]
        BY <2>6, <3>1, SettleHolds DEF ReleaseClaim, RunEnds
      <3> QED BY <3>1, <3>2 DEF ClaimsHeld
    <2> QED BY <1>1, <2>1, <2>2, <2>3, <2>4, <2>5, <2>6 DEF RunStep
  <1>2. ASSUME UNCHANGED <<run, claimed>> PROVE ClaimsHeld'
    BY <1>2, SameHolders DEF Holding
  <1>3. ASSUME NEW e \in Edits, EditStep(e) PROVE ClaimsHeld'
    <2>1. CASE StopSchedule(e) \/ RemoveTest(e)
      BY <2>1, DisarmHolders DEF StopSchedule, RemoveTest, Doing, RestoreTypeOK, Edit
    <2>2. ASSUME NEW g \in Runs, StartSchedule(e, g) PROVE ClaimsHeld'
      <3>1. edit[e].id \in RestoreIds
        BY <2>2 DEF StartSchedule, Doing, RestoreTypeOK, Edit
      <3>2. CASE run' = run
        BY <1>2, <2>2, <3>2 DEF StartSchedule
      <3>3. CASE run' # run
        <4>1. ~Holding(g) /\ ~Holding(g)'
          BY <2>2, <3>3 DEF StartSchedule, Holding, Disarm
        <4>2. \A h \in Runs : h # g => run'[h] = Disarm(edit[e].id)[h]
          BY <2>2, <3>3 DEF StartSchedule, Disarm
        <4>3. \A h \in Runs : /\ Holding(h)' <=> Holding(h)
                              /\ Holding(h) => run'[h].id = run[h].id
          BY <3>1, <4>1, <4>2, DisarmEffect, RestoreConstants DEF Holding, RestoreConstants
        <4> QED BY <2>2, <4>3, SameHolders DEF StartSchedule
      <3> QED BY <3>2, <3>3
    <2> QED BY <1>2, <1>3, <2>1, <2>2
            DEF EditStep, ReadBack, RetireTest, DeleteFile, DeleteTest, PostTest, EditOnly
  <1>4. CASE StopTests
    <2> DEFINE armed == FALSE
    <2>1. armed \in BOOLEAN /\ claimed' = claimed
      BY <1>4 DEF StopTests
    <2>2. \A g \in Runs : run'[g] = IF run[g] = None \/ On(g, "wait") THEN None
                                    ELSE [run[g] EXCEPT !.armed = armed]
      BY <1>4 DEF StopTests
    <2> HIDE DEF armed
    <2>3. \A r \in Run : /\ [r EXCEPT !.armed = armed] \in Run
                          /\ [r EXCEPT !.armed = armed].pc = r.pc
                          /\ [r EXCEPT !.armed = armed].id = r.id
      BY <2>1 DEF Run
    <2>4. ASSUME NEW g \in Runs
          PROVE  /\ Holding(g)' <=> Holding(g)
                 /\ Holding(g) => run'[g].id = run[g].id
      <3>1. CASE run[g] = None \/ On(g, "wait")
        BY <2>2, <3>1 DEF Holding, On
      <3>2. CASE ~(run[g] = None \/ On(g, "wait"))
        <4>1. run[g] \in Run /\ run'[g] = [run[g] EXCEPT !.armed = armed]
          BY <2>2, <3>2 DEF RestoreTypeOK
        <4>2. run'[g] \in Run /\ run'[g].pc = run[g].pc /\ run'[g].id = run[g].id
          BY <2>3, <4>1
        <4> QED BY <4>1, <4>2, RestoreConstants DEF Holding, RestoreConstants
      <3> QED BY <3>1, <3>2
    <2> QED BY <2>1, <2>4, SameHolders
  <1>5. CASE TestsRestart
    <2>1. claimed' = {} /\ \A g \in Runs : ~Holding(g)'
      BY <1>5 DEF TestsRestart, Holding
    <2> QED BY <2>1 DEF ClaimsHeld
  <1> QED BY <1>1, <1>2, <1>3, <1>4, <1>5 DEF RestoreNext, restoreVars

(* The restore tests keep their invariant.                                 *)
LEMMA RestoreInvariance == RestoreSpec => []RestoreInv
  <1>1. RestoreInit => RestoreInv
    <2> SUFFICES ASSUME RestoreInit PROVE RestoreInv
      OBVIOUS
    <2>1. rstStopped \in BOOLEAN
      BY Zenon DEF RestoreInit
    <2>2. RestoreTypeOK
      BY <2>1 DEF RestoreInit, RestoreTypeOK
    <2>3. VerdictIsOfTarget /\ ClaimsHeld
      BY DEF RestoreInit, VerdictIsOfTarget, ClaimsHeld, Holding
    <2> QED BY <2>2, <2>3 DEF RestoreInv
  <1>2. RestoreInv /\ [RestoreNext]_restoreVars => RestoreInv'
    BY RestoreTyping, VerdictStep, ClaimsStep DEF RestoreInv
  <1> QED BY <1>1, <1>2, PTL DEF RestoreSpec

(* A stored verdict belongs to the target and the life of the test it is   *)
(* stored with, however edits, deletions, runs and restarts interleave     *)
(* (SaveRestoreTestResult).                                                *)
THEOREM VerdictsFit == RestoreSpec => []VerdictIsOfTarget
  BY RestoreInvariance, PTL DEF RestoreInv

(* One run at a time verifies a test, and its claim is held exactly as     *)
(* long (RunNow).                                                          *)
THEOREM RunsAreSingle == RestoreSpec => []OneRunPerTest
  <1>1. RestoreInv => OneRunPerTest
    <2> SUFFICES ASSUME RestoreInv, NEW id \in RestoreIds
                 PROVE  /\ Cardinality(Verifying(id)) <= 1
                        /\ id \in claimed <=> Verifying(id) # {}
      BY DEF OneRunPerTest
    <2>1. \A g \in Runs : g \in Verifying(id) <=> Holding(g) /\ run[g].id = id
      BY DEF Verifying, Holding
    <2>2. id \in claimed <=> Verifying(id) # {}
      BY <2>1 DEF RestoreInv, ClaimsHeld, Verifying
    <2>3. CASE Verifying(id) = {}
      BY <2>2, <2>3, FS_EmptySet
    <2>4. CASE Verifying(id) # {}
      <3>1. PICK g \in Verifying(id) : TRUE
        BY <2>4
      <3>2. Verifying(id) = {g}
        BY <2>1, <3>1 DEF RestoreInv, ClaimsHeld, Verifying
      <3>3. Cardinality(Verifying(id)) = 1
        BY <3>2, FS_Singleton
      <3> QED BY <2>2, <3>3
    <2> QED BY <2>3, <2>4
  <1> QED BY <1>1, RestoreInvariance, PTL

-----------------------------------------------------------------------------
(* Webhook deliveries: the ledger and the relays.                          *)
-----------------------------------------------------------------------------

(* The index is what a restart would read from the ledger.                 *)
IndexIsLedger == seen = ledger

(* Claims and goroutines match one to one.                                 *)
ClaimsMatch ==
    /\ \A d \in Deliveries : d \in inFlight <=> \E g \in Relays : relay[g] # None /\ relay[g].d = d
    /\ \A g, h \in Relays : relay[g] # None /\ relay[h] # None /\ relay[g].d = relay[h].d => g = h

(* A relay that only has its claim to release has recorded, or could not.  *)
ReleasedIsRecorded ==
    \A g \in Relays : relay[g] # None /\ relay[g].pc = "release" => relay[g].d \in ledger \cup lost

DeliveryInv ==
    /\ DeliveryTypeOK /\ IndexIsLedger /\ ClaimsMatch /\ ReleasedIsRecorded
    /\ AcknowledgedIsKept /\ AdmittedUnderSecret

-----------------------------------------------------------------------------
(* What a handler's step leaves in place when the source stays as it is    *)
(* and no relay starts.                                                    *)

LEMMA HookTypes ==
    ASSUME DeliveryTypeOK, NEW k \in Hooks, hook[k] # None,
           NEW pc \in {"seen", "verify", "relay"}
    PROVE  /\ [hook EXCEPT ![k].pc = pc] \in [Hooks -> Hook \cup {None}]
           /\ [hook EXCEPT ![k] = None] \in [Hooks -> Hook \cup {None}]
           /\ hook[k] \in Hook
  BY DEF DeliveryTypeOK, Hook

(* The forge gets an answer, or not, with the delivery recorded, or not.   *)
LEMMA AnswerStep ==
    ASSUME DeliveryInv, NEW d \in Deliveries,
           UNCHANGED <<secret, secrets, degraded, inFlight, relay, lost>>, route' \in BOOLEAN,
           hook' \in [Hooks -> Hook \cup {None}], AdmittedUnderSecret',
           \/ Keep(d) /\ (Answer(d) \/ UNCHANGED told)
           \/ /\ UNCHANGED <<ledger, seen>>
              /\ \/ UNCHANGED told
                 \/ Answer(d) /\ (d \in seen \/ d \in inFlight)
    PROVE  DeliveryInv'
  <1>1. /\ ledger \subseteq ledger' /\ ledger' \subseteq ledger \cup {d}
        /\ seen' = ledger' /\ told' \subseteq told \cup {d}
    BY DEF DeliveryInv, IndexIsLedger, Keep, Answer
  <1>2. DeliveryTypeOK'
    BY <1>1 DEF DeliveryInv, DeliveryTypeOK
  <1>3. IndexIsLedger' /\ ClaimsMatch'
    BY <1>1 DEF DeliveryInv, IndexIsLedger, ClaimsMatch
  <1>4. ReleasedIsRecorded'
    BY <1>1 DEF DeliveryInv, ReleasedIsRecorded
  <1>5. ASSUME d \in told' \ told, d \notin lost, d \notin ledger'
        PROVE  \E g \in Relaying(d) : relay[g].pc = "poll"
    <2>1. d \in inFlight
      BY <1>5 DEF Keep, DeliveryInv, IndexIsLedger
    <2>2. PICK g \in Relays : relay[g] # None /\ relay[g].d = d
      BY <2>1 DEF DeliveryInv, ClaimsMatch
    <2>3. relay[g] \in Relay
      BY <2>2 DEF DeliveryInv, DeliveryTypeOK
    <2>4. relay[g].pc # "release"
      BY <1>1, <1>5, <2>2 DEF DeliveryInv, ReleasedIsRecorded
    <2> QED BY <2>2, <2>3, <2>4 DEF Relaying, Relay
  <1>6. AcknowledgedIsKept'
    BY <1>1, <1>5 DEF DeliveryInv, AcknowledgedIsKept, Relaying
  <1> QED BY <1>2, <1>3, <1>4, <1>6 DEF DeliveryInv

(* Handlers that only move on, or end, keep what they were admitted under. *)
LEMMA HookStays ==
    ASSUME DeliveryInv, NEW k \in Hooks, hook[k] # None, UNCHANGED secret,
           \/ HookEnds(k)
           \/ /\ hook[k].pc # "waiting" \/ hook[k].secret = secret
              /\ \E pc \in {"seen", "verify", "relay"} : HookGoesOn(k, pc)
    PROVE  hook' \in [Hooks -> Hook \cup {None}] /\ AdmittedUnderSecret'
  <1>1. CASE HookEnds(k)
    BY <1>1, HookTypes DEF HookEnds, DeliveryInv, DeliveryTypeOK, AdmittedUnderSecret
  <1>2. ASSUME NEW pc \in {"seen", "verify", "relay"}, HookGoesOn(k, pc),
               hook[k].pc # "waiting" \/ hook[k].secret = secret
        PROVE  hook' \in [Hooks -> Hook \cup {None}] /\ AdmittedUnderSecret'
    <2>1. hook' \in [Hooks -> Hook \cup {None}]
      BY <1>2, HookTypes DEF HookGoesOn, DeliveryInv
    <2>2. hook[k] \in Hook /\ hook[k].secret = secret
      BY <1>2, HookTypes DEF DeliveryInv, AdmittedUnderSecret
    <2>3. hook'[k].secret = secret /\ \A j \in Hooks \ {k} : hook'[j] = hook[j]
      BY <1>2, <2>2 DEF HookGoesOn, DeliveryInv, DeliveryTypeOK, Hook
    <2>4. AdmittedUnderSecret'
      BY <2>3 DEF DeliveryInv, AdmittedUnderSecret
    <2> QED BY <2>1, <2>4
  <1> QED BY <1>1, <1>2

-----------------------------------------------------------------------------
(* A handler.                                                              *)

LEMMA HookInv ==
    ASSUME DeliveryInv, NEW k \in Hooks, HookStep(k)
    PROVE  DeliveryInv'
  <1> USE DEF SourceKept
  <1>1. ASSUME NEW d \in Deliveries, DeliveryArrives(k, d)
        PROVE  DeliveryInv'
    <2>1. secret \in 1..MaxSecret
      BY <1>1, DeliveryConstants DEF DeliveryArrives, DeliveryInv, DeliveryTypeOK, DeliveryConstants
    <2>2. hook' \in [Hooks -> Hook \cup {None}]
      BY <1>1, <2>1 DEF DeliveryArrives, DeliveryInv, DeliveryTypeOK, Hook
    <2>3. AdmittedUnderSecret'
      BY <1>1 DEF DeliveryArrives, DeliveryInv, DeliveryTypeOK, AdmittedUnderSecret
    <2> QED BY <1>1, <2>2, <2>3, AnswerStep DEF DeliveryArrives, DeliveryInv, DeliveryTypeOK
  <1>2. CASE AuthenticateAgain(k)
    <2>1. hook[k] \in Hook /\ hook[k] # None
      BY <1>2, HookTypes DEF AuthenticateAgain, Serving, DeliveryInv
    <2>2. hook' \in [Hooks -> Hook \cup {None}] /\ AdmittedUnderSecret'
      BY <1>2, <2>1, HookStays DEF AuthenticateAgain
    <2> QED BY <1>2, <2>1, <2>2, AnswerStep DEF AuthenticateAgain, DeliveryInv, DeliveryTypeOK, Hook
  <1>3. CASE CheckSeen(k)
    <2>1. hook[k] \in Hook /\ hook[k] # None /\ hook[k].pc = "seen"
      BY <1>3, HookTypes DEF CheckSeen, Serving, DeliveryInv
    <2>2. hook' \in [Hooks -> Hook \cup {None}] /\ AdmittedUnderSecret'
      BY <1>3, <2>1, HookStays DEF CheckSeen, RecordIgnored
    <2>3. hook[k].d \in Deliveries /\ route' \in BOOLEAN
      BY <1>3, <2>1 DEF CheckSeen, Hook, DeliveryInv, DeliveryTypeOK
    <2> QED BY <1>3, <2>2, <2>3, AnswerStep DEF CheckSeen, RecordIgnored
  <1>4. CASE VerifyPush(k)
    <2>1. hook[k] \in Hook /\ hook[k] # None /\ hook[k].pc = "verify"
      BY <1>4, HookTypes DEF VerifyPush, Serving, DeliveryInv
    <2>2. hook' \in [Hooks -> Hook \cup {None}] /\ AdmittedUnderSecret'
      BY <1>4, <2>1, HookStays DEF VerifyPush, RecordIgnored
    <2>3. hook[k].d \in Deliveries /\ route' \in BOOLEAN
      BY <1>4, <2>1 DEF VerifyPush, Hook, DeliveryInv, DeliveryTypeOK
    <2> QED BY <1>4, <2>2, <2>3, AnswerStep DEF VerifyPush, RecordIgnored
  <1>5. ASSUME NEW g \in Relays, StartRelay(k, g)
        PROVE  DeliveryInv'
    <2>1. hook[k] \in Hook /\ hook[k] # None /\ hook[k].pc = "relay"
      BY <1>5, HookTypes DEF StartRelay, Serving, DeliveryInv
    <2>2. hook' \in [Hooks -> Hook \cup {None}] /\ AdmittedUnderSecret'
      BY <1>5, <2>1, HookStays DEF StartRelay, RecordIgnored
    <2>3. hook[k].d \in Deliveries /\ route' \in BOOLEAN
      BY <1>5, <2>1 DEF StartRelay, Hook, DeliveryInv, DeliveryTypeOK
    <2>4. CASE ~route \/ RelayClaimed(hook[k].d)
      BY <1>5, <2>2, <2>3, <2>4, AnswerStep DEF StartRelay, RecordIgnored, RelayClaimed
    <2>5. CASE route /\ ~RelayClaimed(hook[k].d)
      <3> DEFINE d == hook[k].d
      <3>1. /\ relay[g] = None /\ d \notin inFlight
            /\ relay' = [relay EXCEPT ![g] = [d |-> d, pc |-> "poll"]]
            /\ inFlight' = inFlight \cup {d} /\ told' = told \cup {d}
            /\ UNCHANGED <<secret, secrets, degraded, ledger, seen, route, lost>>
        BY <1>5, <2>5 DEF StartRelay, RelayClaimed, Answer
      <3>2. [d |-> d, pc |-> "poll"] \in Relay /\ [d |-> d, pc |-> "poll"] # None
        BY <2>3, DeliveryConstants DEF Relay, DeliveryConstants
      <3>3. relay' \in [Relays -> Relay \cup {None}]
        BY <3>1, <3>2 DEF DeliveryInv, DeliveryTypeOK
      <3>4. DeliveryTypeOK'
        BY <2>2, <2>3, <3>1, <3>3 DEF DeliveryInv, DeliveryTypeOK
      <3>5. \A h \in Relays : relay'[h] = IF h = g THEN [d |-> d, pc |-> "poll"] ELSE relay[h]
        BY <3>1 DEF DeliveryInv, DeliveryTypeOK
      <3>6. ClaimsMatch'
        BY <2>3, <3>1, <3>2, <3>5 DEF DeliveryInv, ClaimsMatch
      <3>7. ReleasedIsRecorded'
        BY <3>1, <3>5 DEF DeliveryInv, ReleasedIsRecorded
      <3>8. AcknowledgedIsKept'
        BY <3>1, <3>2, <3>5 DEF DeliveryInv, AcknowledgedIsKept, Relaying
      <3> QED BY <2>2, <3>1, <3>4, <3>6, <3>7, <3>8 DEF DeliveryInv, IndexIsLedger
    <2> QED BY <2>4, <2>5
  <1> QED BY <1>1, <1>2, <1>3, <1>4, <1>5 DEF HookStep

-----------------------------------------------------------------------------
(* A relay.                                                                *)

LEMMA RelayInv ==
    ASSUME DeliveryInv, NEW g \in Relays, RelayRecords(g) \/ RelayReleases(g)
    PROVE  DeliveryInv'
  <1> USE DEF SourceKept
  <1>1. relay[g] \in Relay /\ relay[g] # None
    BY DEF RelayRecords, RelayReleases, DeliveryInv, DeliveryTypeOK
  <1>2. relay[g].d \in Deliveries
    BY <1>1 DEF Relay
  <1>3. CASE RelayRecords(g)
    <2>1. [relay[g] EXCEPT !.pc = "release"] \in Relay
      BY <1>1 DEF Relay
    <2>2. \A h \in Relays : relay'[h] = IF h = g THEN [relay[g] EXCEPT !.pc = "release"] ELSE relay[h]
      BY <1>3 DEF RelayRecords, DeliveryInv, DeliveryTypeOK
    <2>3. /\ relay'[g] # None /\ relay'[g].d = relay[g].d /\ relay'[g].pc = "release"
      BY <1>1, <2>1, <2>2, DeliveryConstants DEF Relay, DeliveryConstants
    <2>4. /\ ledger \subseteq ledger' /\ lost \subseteq lost' /\ seen' = ledger'
          /\ relay[g].d \in ledger' \cup lost'
          /\ ledger' \subseteq Deliveries /\ lost' \subseteq Deliveries
      BY <1>2, <1>3 DEF RelayRecords, Keep, DeliveryInv, DeliveryTypeOK, IndexIsLedger
    <2>5. UNCHANGED <<secret, secrets, degraded, hook, inFlight, told>>
      BY <1>3 DEF RelayRecords
    <2>6. DeliveryTypeOK'
      BY <1>3, <2>1, <2>4, <2>5 DEF RelayRecords, DeliveryInv, DeliveryTypeOK
    <2>7. ClaimsMatch'
      BY <1>1, <2>2, <2>3, <2>5 DEF DeliveryInv, ClaimsMatch
    <2>8. ReleasedIsRecorded'
      BY <2>2, <2>3, <2>4 DEF DeliveryInv, ReleasedIsRecorded
    <2>9. AcknowledgedIsKept'
      BY <1>1, <2>2, <2>4, <2>5 DEF DeliveryInv, AcknowledgedIsKept, Relaying
    <2>10. AdmittedUnderSecret'
      BY <2>5 DEF DeliveryInv, AdmittedUnderSecret
    <2> QED BY <2>4, <2>6, <2>7, <2>8, <2>9, <2>10 DEF DeliveryInv, IndexIsLedger
  <1>4. CASE RelayReleases(g)
    <2>1. \A h \in Relays : relay'[h] = IF h = g THEN None ELSE relay[h]
      BY <1>4 DEF RelayReleases, DeliveryInv, DeliveryTypeOK
    <2>2. /\ inFlight' = inFlight \ {relay[g].d} /\ relay[g].pc = "release"
          /\ UNCHANGED <<secret, secrets, degraded, ledger, seen, hook, route, told, lost>>
      BY <1>4 DEF RelayReleases
    <2>3. DeliveryTypeOK'
      BY <1>4, <2>2 DEF RelayReleases, DeliveryInv, DeliveryTypeOK
    <2>4. ClaimsMatch'
      BY <1>1, <2>1, <2>2 DEF DeliveryInv, ClaimsMatch
    <2>5. ReleasedIsRecorded'
      BY <2>1, <2>2 DEF DeliveryInv, ReleasedIsRecorded
    <2>6. AcknowledgedIsKept'
      BY <2>1, <2>2 DEF DeliveryInv, AcknowledgedIsKept, Relaying
    <2> QED BY <2>2, <2>3, <2>4, <2>5, <2>6 DEF DeliveryInv, IndexIsLedger, AdmittedUnderSecret
  <1> QED BY <1>3, <1>4

-----------------------------------------------------------------------------
(* The source.                                                             *)

LEMMA SourceInv ==
    ASSUME DeliveryInv,
           CreateSource \/ RotateWebhookSecret \/ MarkCredentialState \/ DeleteSource
    PROVE  DeliveryInv'
  <1> USE DEF SourceKept
  <1>1. /\ secret' \in 0..MaxSecret /\ secrets' \in 0..MaxSecret /\ degraded' \in BOOLEAN
    <2>1. secrets \in 0..MaxSecret /\ secret \in 0..MaxSecret /\ MaxSecret \in Nat
          /\ degraded \in BOOLEAN
      BY DeliveryConstants DEF DeliveryInv, DeliveryTypeOK, DeliveryConstants
    <2>2. ASSUME FreshSecret PROVE secret' \in 0..MaxSecret /\ secrets' \in 0..MaxSecret
      BY <2>1, <2>2 DEF FreshSecret
    <2>3. secret' \in 0..MaxSecret /\ secrets' \in 0..MaxSecret
      BY <2>1, <2>2 DEF CreateSource, RotateWebhookSecret, MarkCredentialState, DeleteSource
    <2>4. degraded' \in BOOLEAN
      BY <2>1, Zenon DEF CreateSource, RotateWebhookSecret, MarkCredentialState, DeleteSource
    <2> QED BY <2>3, <2>4
  <1>2. UNCHANGED <<hook, inFlight, relay, route>>
    BY DEF CreateSource, RotateWebhookSecret, MarkCredentialState, DeleteSource
  <1>3. \/ UNCHANGED <<ledger, seen, told, lost>>
        \/ ledger' = {} /\ seen' = {} /\ told' = {} /\ lost' = lost \cup inFlight
    BY DEF CreateSource, RotateWebhookSecret, MarkCredentialState, DeleteSource
  <1>4. DeliveryTypeOK'
    BY <1>1, <1>2, <1>3 DEF DeliveryInv, DeliveryTypeOK
  <1>5. IndexIsLedger' /\ ClaimsMatch'
    BY <1>2, <1>3 DEF DeliveryInv, IndexIsLedger, ClaimsMatch
  <1>6. \A g \in Relays : relay[g] # None => relay[g].d \in inFlight
    BY DEF DeliveryInv, DeliveryTypeOK, ClaimsMatch, Relay
  <1>7. ReleasedIsRecorded'
    BY <1>2, <1>3, <1>6 DEF DeliveryInv, ReleasedIsRecorded
  <1>8. AcknowledgedIsKept'
    BY <1>2, <1>3 DEF DeliveryInv, AcknowledgedIsKept, Relaying
  <1>9. AdmittedUnderSecret'
    <2>1. CASE CreateSource
      <3>1. secret = 0
        BY <2>1 DEF CreateSource
      <3>2. \A k \in Hooks : hook[k] # None => hook[k].secret # 0
        BY DEF DeliveryInv, DeliveryTypeOK, Hook
      <3> QED BY <1>2, <3>1, <3>2 DEF DeliveryInv, AdmittedUnderSecret
    <2>2. CASE RotateWebhookSecret \/ DeleteSource
      BY <1>2, <2>2 DEF RotateWebhookSecret, DeleteSource, Locked, AdmittedUnderSecret
    <2>3. CASE MarkCredentialState
      BY <1>2, <2>3 DEF MarkCredentialState, DeliveryInv, AdmittedUnderSecret
    <2> QED BY <2>1, <2>2, <2>3
  <1> QED BY <1>4, <1>5, <1>7, <1>8, <1>9 DEF DeliveryInv

(* Every step of the deliveries keeps their invariant.                     *)
LEMMA DeliveryStep == DeliveryInv /\ [DeliveryNext]_deliveryVars => DeliveryInv'
  <1> SUFFICES ASSUME DeliveryInv, [DeliveryNext]_deliveryVars PROVE DeliveryInv'
    OBVIOUS
  <1>1. CASE CreateSource \/ RotateWebhookSecret \/ MarkCredentialState \/ DeleteSource
    BY <1>1, SourceInv
  <1>2. CASE RouteChanges
    BY <1>2 DEF RouteChanges, SourceKept, DeliveryInv, DeliveryTypeOK, IndexIsLedger, ClaimsMatch,
                ReleasedIsRecorded, AcknowledgedIsKept, Relaying, AdmittedUnderSecret
  <1>3. ASSUME NEW k \in Hooks, HookStep(k) PROVE DeliveryInv'
    BY <1>3, HookInv
  <1>4. ASSUME NEW g \in Relays, RelayRecords(g) \/ RelayReleases(g) PROVE DeliveryInv'
    BY <1>4, RelayInv
  <1>5. CASE SourcesRestart
    BY <1>5 DEF SourcesRestart, SourceKept, DeliveryInv, DeliveryTypeOK, IndexIsLedger, ClaimsMatch,
                ReleasedIsRecorded, AcknowledgedIsKept, Relaying, AdmittedUnderSecret
  <1>6. CASE UNCHANGED deliveryVars
    BY <1>6 DEF deliveryVars, DeliveryInv, DeliveryTypeOK, IndexIsLedger, ClaimsMatch,
                ReleasedIsRecorded, AcknowledgedIsKept, Relaying, AdmittedUnderSecret
  <1> QED BY <1>1, <1>2, <1>3, <1>4, <1>5, <1>6 DEF DeliveryNext

(* The deliveries keep their invariant.                                    *)
LEMMA DeliveryInvariance == DeliverySpec => []DeliveryInv
  <1>1. DeliveryInit => DeliveryInv
    <2> SUFFICES ASSUME DeliveryInit PROVE DeliveryInv
      OBVIOUS
    <2>1. 0 \in 0..MaxSecret
      BY DeliveryConstants DEF DeliveryConstants
    <2>2. DeliveryTypeOK
      BY <2>1, Zenon DEF DeliveryInit, DeliveryTypeOK
    <2>3. IndexIsLedger /\ ClaimsMatch /\ ReleasedIsRecorded
      BY DEF DeliveryInit, IndexIsLedger, ClaimsMatch, ReleasedIsRecorded
    <2>4. AcknowledgedIsKept /\ AdmittedUnderSecret
      BY DEF DeliveryInit, AcknowledgedIsKept, AdmittedUnderSecret
    <2> QED BY <2>2, <2>3, <2>4 DEF DeliveryInv
  <1> QED BY <1>1, DeliveryStep, PTL DEF DeliverySpec

-----------------------------------------------------------------------------
(* While the process lives, what the forge was told is done is in the      *)
(* ledger or in the hands of a relay that will record it, whatever is      *)
(* rotated, deleted, duplicated or restarted (handleSourceWebhook).        *)
THEOREM AcknowledgedStays == DeliverySpec => []AcknowledgedIsKept
  <1>1. DeliveryInv => AcknowledgedIsKept
    BY DEF DeliveryInv
  <1> QED BY <1>1, DeliveryInvariance, PTL

(* No delivery signed with a secret that was rotated or deleted since is   *)
(* admitted: the second authentication is under the lock of the rotation.  *)
THEOREM AdmissionFollowsSecret == DeliverySpec => []AdmittedUnderSecret
  <1>1. DeliveryInv => AdmittedUnderSecret
    BY DEF DeliveryInv
  <1> QED BY <1>1, DeliveryInvariance, PTL

(* Two pushes of one delivery never relay at once, and the claim of a      *)
(* relay lasts exactly as long as it does (relayVerifiedPush).             *)
THEOREM RelaysAreSingle == DeliverySpec => []OneRelay
  <1>1. DeliveryInv => OneRelay
    <2> SUFFICES ASSUME DeliveryInv, NEW d \in Deliveries
                 PROVE  /\ Cardinality(Relaying(d)) <= 1
                        /\ d \in inFlight <=> Relaying(d) # {}
      BY DEF OneRelay
    <2>1. d \in inFlight <=> Relaying(d) # {}
      BY DEF DeliveryInv, ClaimsMatch, Relaying
    <2>2. CASE Relaying(d) = {}
      <3>1. Cardinality({}) = 0
        BY FS_EmptySet
      <3> QED BY <2>1, <2>2, <3>1
    <2>3. ASSUME NEW g \in Relaying(d) PROVE Cardinality(Relaying(d)) <= 1
      <3>1. Relaying(d) = {g}
        BY <2>3 DEF DeliveryInv, ClaimsMatch, Relaying
      <3>2. Cardinality({g}) = 1
        BY FS_Singleton
      <3> QED BY <3>1, <3>2
    <2> QED BY <2>1, <2>2, <2>3
  <1> QED BY <1>1, DeliveryInvariance, PTL

-----------------------------------------------------------------------------
(* Accounts, sessions and what they may still do.                          *)
-----------------------------------------------------------------------------

(* An epoch is not that of the identity's row.                             *)
Dead(rows, c) == rows[c.sub] = None \/ rows[c.sub].epoch # c.epoch

(* What carries an epoch read it from the counter's past, and when it was  *)
(* revoked is dead now and after a restart.                                *)
Genuine(c, rows, n, file) ==
    /\ c.epoch <= n
    /\ c.revoked => Dead(rows, c) /\ (file # None => Dead(file.row, c))

CarriersSound ==
    /\ \A t \in SessionTokens : /\ session[t] # None => Genuine(session[t], row, counter, store)
                                /\ kept[t] # None => Genuine(kept[t], row, counter, store)
    /\ \A k \in Logins : login[k] # None => Genuine(SessionOf(k), row, counter, store)

(* Every row's epoch was drawn from the counter, and the file, which a     *)
(* failed save may have renamed into place, is never behind the process.   *)
RowsDrawn ==
    /\ \A i \in Accounts : row[i] # None => row[i].epoch <= counter
    /\ IF store = None THEN counter = 0 /\ \A i \in Accounts : row[i] = None
       ELSE /\ counter <= store.counter
            /\ \A i \in Accounts : store.row[i] # None => store.row[i].epoch <= store.counter

SetupAlone == setup => ~sso /\ \A i \in Accounts : row[i] = None

AccessInv == AccessTypeOK /\ CarriersSound /\ RowsDrawn

-----------------------------------------------------------------------------
(* Changes of rows                                                         *)

(* One identity's row changes, in memory and on disk or, when the save     *)
(* fails, perhaps on disk alone.  Epochs stay or are drawn anew, so what   *)
(* was dead stays dead.                                                    *)
LEMMA RowChange ==
    ASSUME AccessInv, NEW i \in Accounts, NEW r \in AccountRow \cup {None},
           NEW n \in 0..MaxEpoch, counter <= n,
           r # None => \/ r.epoch = counter + 1 /\ n = counter + 1
                       \/ row[i] # None /\ r.epoch = row[i].epoch,
           \/ PublishUsers([row EXCEPT ![i] = r], n)
           \/ SaveFails([row EXCEPT ![i] = r], n)
    PROVE  /\ row' \in Rows /\ counter' \in 0..MaxEpoch /\ store' \in Store \cup {None}
           /\ RowsDrawn'
           /\ counter <= counter'
           /\ \A c \in Carrier : Genuine(c, row, counter, store) => Genuine(c, row', counter', store')
  <1> DEFINE rows == [row EXCEPT ![i] = r]
             file == [row |-> rows, counter |-> n]
  <1>1. rows \in Rows /\ \A j \in Accounts : rows[j] = IF j = i THEN r ELSE row[j]
    BY DEF AccessInv, AccessTypeOK, Rows
  <1>2. file \in Store /\ file # None /\ file.row = rows /\ file.counter = n
    BY <1>1, AccessConstants DEF Store, AccessConstants
  <1>3. counter \in Nat /\ n \in Nat
    BY DEF AccessInv, AccessTypeOK
  <1>4. \A j \in Accounts : rows[j] # None => rows[j].epoch <= n
    <2>1. \A j \in Accounts : row[j] # None => row[j].epoch <= counter /\ row[j].epoch \in Nat
      BY DEF AccessInv, AccessTypeOK, RowsDrawn, Rows, AccountRow
    <2> QED BY <1>1, <1>3, <2>1 DEF AccountRow
  <1>5. ASSUME NEW c \in Carrier, Genuine(c, row, counter, store)
        PROVE  c.epoch <= n /\ (c.revoked => Dead(rows, c))
    BY <1>1, <1>3, <1>5 DEF Genuine, Dead, Carrier
  <1>6. CASE PublishUsers(rows, n)
    <2>1. row' = rows /\ counter' = n /\ store' = file
      BY <1>6 DEF PublishUsers
    <2>2. RowsDrawn'
      BY <1>2, <1>3, <1>4, <2>1 DEF RowsDrawn
    <2>3. \A c \in Carrier : Genuine(c, row, counter, store) => Genuine(c, row', counter', store')
      BY <1>2, <1>5, <2>1 DEF Genuine
    <2> QED BY <1>1, <1>2, <2>1, <2>2, <2>3
  <1>7. CASE SaveFails(rows, n)
    <2>1. row' = row /\ counter' = counter /\ store' \in {store, file}
      BY <1>7 DEF SaveFails
    <2>2. RowsDrawn'
      BY <1>2, <1>3, <1>4, <2>1 DEF AccessInv, RowsDrawn
    <2>3. \A c \in Carrier : Genuine(c, row, counter, store) => Genuine(c, row', counter', store')
      BY <1>2, <1>5, <2>1 DEF Genuine
    <2> QED BY <1>2, <1>3, <2>1, <2>2, <2>3 DEF AccessInv, AccessTypeOK
  <1> QED BY <1>6, <1>7

(* The same, with everything that carries an epoch left as it is.          *)
LEMMA QuietChange ==
    ASSUME AccessInv, NEW i \in Accounts, NEW r \in AccountRow \cup {None},
           NEW n \in 0..MaxEpoch, counter <= n,
           r # None => \/ r.epoch = counter + 1 /\ n = counter + 1
                       \/ row[i] # None /\ r.epoch = row[i].epoch,
           \/ PublishUsers([row EXCEPT ![i] = r], n)
           \/ SaveFails([row EXCEPT ![i] = r], n),
           setup' \in BOOLEAN, sso' \in BOOLEAN, wiping' \subseteq Accounts,
           UNCHANGED <<session, kept>>,
           login' \in [Logins -> Login \cup {None}],
           \A k \in Logins : login'[k] # None =>
              \/ login[k] # None /\ login'[k] = login[k]
              \/ ~login'[k].revoked /\ login'[k].epoch <= counter'
    PROVE  AccessInv'
  <1>1. /\ row' \in Rows /\ counter' \in 0..MaxEpoch /\ store' \in Store \cup {None}
        /\ RowsDrawn'
        /\ \A c \in Carrier : Genuine(c, row, counter, store) => Genuine(c, row', counter', store')
    BY RowChange
  <1>3. AccessTypeOK'
    BY <1>1 DEF AccessInv, AccessTypeOK
  <1>4. \A t \in SessionTokens :
           /\ session'[t] # None => Genuine(session'[t], row', counter', store')
           /\ kept'[t] # None => Genuine(kept'[t], row', counter', store')
    BY <1>1 DEF AccessInv, AccessTypeOK, CarriersSound
  <1>5. ASSUME NEW k \in Logins, login'[k] # None
        PROVE  Genuine(SessionOf(k)', row', counter', store')
    <2>1. CASE login[k] # None /\ login'[k] = login[k]
      <3>1. SessionOf(k)' = SessionOf(k) /\ SessionOf(k) \in Carrier
        BY <2>1 DEF SessionOf, AccessInv, AccessTypeOK, Login, Carrier
      <3> QED BY <1>1, <2>1, <3>1 DEF AccessInv, CarriersSound
    <2>2. CASE ~login'[k].revoked /\ login'[k].epoch <= counter'
      BY <2>2 DEF SessionOf, Genuine
    <2> QED BY <1>5, <2>1, <2>2
  <1>6. CarriersSound'
    BY <1>4, <1>5 DEF CarriersSound
  <1> QED BY <1>1, <1>3, <1>6 DEF AccessInv

(* A change that revokes: on success what carries an epoch of the identity *)
(* is marked, and every such epoch is older than the row's new one.        *)
LEMMA MarkSound ==
    ASSUME NEW f, NEW D, DOMAIN f = D, NEW i,
           NEW x \in D
    PROVE  /\ DOMAIN Mark(f, i) = D
           /\ Mark(f, i)[x] = IF f[x] # None /\ f[x].sub = i THEN [f[x] EXCEPT !.revoked = TRUE]
                              ELSE f[x]
  BY DEF Mark

(* An account's row replaced under a new epoch keeps the invariant.        *)
LEMMA ReplaceStep ==
    ASSUME AccessInv, NEW i \in Accounts, NEW r \in AccountRow \cup {None}, NEW requests,
           r # None => r.epoch = counter + 1,
           requests \in [Logins -> Login \cup {None}],
           \A k \in Logins : requests[k] = login[k] \/ requests[k] = None,
           Replace(i, r, requests)
    PROVE  AccessInv'
  <1> DEFINE rows == [row EXCEPT ![i] = r]
  <1>1. counter + 1 \in 0..MaxEpoch /\ counter \in Nat
    BY AccessConstants DEF Replace, AccessInv, AccessTypeOK, AccessConstants
  <1>2. \/ PublishUsers(rows, counter + 1)
        \/ SaveFails(rows, counter + 1)
    BY DEF Replace
  <1>3. CASE SaveFails(rows, counter + 1) /\ login' = requests /\ UNCHANGED <<session, kept, wiping>>
    <2>1. UNCHANGED <<setup, sso>>
      BY DEF Replace
    <2> QED BY <1>1, <1>3, <2>1, QuietChange DEF AccessInv, AccessTypeOK
  <1>4. CASE /\ PublishUsers(rows, counter + 1)
             /\ session' = Mark(session, i) /\ kept' = Mark(kept, i) /\ login' = Mark(requests, i)
             /\ wiping' = wiping \cup {i}
    <2>1. /\ row' \in Rows /\ counter' \in 0..MaxEpoch /\ store' \in Store \cup {None}
          /\ RowsDrawn'
          /\ \A c \in Carrier : Genuine(c, row, counter, store) => Genuine(c, row', counter', store')
      BY <1>1, <1>2, RowChange
    <2>2. /\ row'[i] = r /\ store'.row[i] = r
      BY <1>4 DEF PublishUsers, AccessInv, AccessTypeOK, Rows
    <2>3. \A c \in Carrier : c.sub = i /\ Genuine(c, row, counter, store) =>
             /\ [c EXCEPT !.revoked = TRUE] \in Carrier
             /\ Genuine([c EXCEPT !.revoked = TRUE], row', counter', store')
      <3> SUFFICES ASSUME NEW c \in Carrier, c.sub = i, Genuine(c, row, counter, store)
                   PROVE  /\ [c EXCEPT !.revoked = TRUE] \in Carrier
                          /\ Genuine([c EXCEPT !.revoked = TRUE], row', counter', store')
        OBVIOUS
      <3> DEFINE m == [c EXCEPT !.revoked = TRUE]
      <3>1. m \in Carrier /\ m.sub = i /\ m.epoch = c.epoch
        BY DEF Carrier
      <3>2. c.epoch <= counter' /\ c.epoch <= counter /\ c.epoch \in Nat
        BY <2>1 DEF Genuine, Carrier
      <3>3. Dead(row', m) /\ Dead(store'.row, m)
        BY <1>1, <2>2, <3>1, <3>2 DEF Dead, AccountRow
      <3> QED BY <3>1, <3>2, <3>3 DEF Genuine
    <2>4. ASSUME NEW t \in SessionTokens
          PROVE  /\ session'[t] \in Carrier \cup {None} /\ kept'[t] \in Carrier \cup {None}
                 /\ session'[t] # None => Genuine(session'[t], row', counter', store')
                 /\ kept'[t] # None => Genuine(kept'[t], row', counter', store')
      <3>1. /\ session'[t] = IF session[t] # None /\ session[t].sub = i
                             THEN [session[t] EXCEPT !.revoked = TRUE] ELSE session[t]
            /\ kept'[t] = IF kept[t] # None /\ kept[t].sub = i
                          THEN [kept[t] EXCEPT !.revoked = TRUE] ELSE kept[t]
        <4>1. DOMAIN session = SessionTokens /\ DOMAIN kept = SessionTokens
          BY DEF AccessInv, AccessTypeOK
        <4>2. session' = Mark(session, i) /\ kept' = Mark(kept, i)
          BY <1>4
        <4>3. PICK before, stored : before = session /\ stored = kept
          OBVIOUS
        <4>4. Mark(before, i)[t] = IF before[t] # None /\ before[t].sub = i
                                   THEN [before[t] EXCEPT !.revoked = TRUE] ELSE before[t]
          BY <4>1, <4>3, MarkSound
        <4>5. Mark(stored, i)[t] = IF stored[t] # None /\ stored[t].sub = i
                                   THEN [stored[t] EXCEPT !.revoked = TRUE] ELSE stored[t]
          BY <4>1, <4>3, MarkSound
        <4> QED BY <4>2, <4>3, <4>4, <4>5
      <3>2. /\ session[t] \in Carrier \cup {None} /\ kept[t] \in Carrier \cup {None}
            /\ session[t] # None => Genuine(session[t], row, counter, store)
            /\ kept[t] # None => Genuine(kept[t], row, counter, store)
        BY DEF AccessInv, AccessTypeOK, CarriersSound
      <3> QED BY <2>1, <2>3, <3>1, <3>2, SMTT(30)
    <2>5. DOMAIN session' = SessionTokens /\ DOMAIN kept' = SessionTokens /\ DOMAIN login' = Logins
      BY <1>4 DEF Mark, AccessInv, AccessTypeOK
    <2>6. session' \in [SessionTokens -> Carrier \cup {None}]
          /\ kept' \in [SessionTokens -> Carrier \cup {None}]
      <3>1. session' = [t \in SessionTokens |-> session'[t]] /\ kept' = [t \in SessionTokens |-> kept'[t]]
        BY <1>4, <2>5 DEF Mark, AccessInv, AccessTypeOK
      <3> QED BY <2>4, <3>1
    <2>7. ASSUME NEW k \in Logins, login'[k] # None
          PROVE  login'[k] \in Login /\ Genuine(SessionOf(k)', row', counter', store')
      <3>1. login'[k] = IF requests[k] # None /\ requests[k].sub = i
                        THEN [requests[k] EXCEPT !.revoked = TRUE] ELSE requests[k]
        BY <1>4, MarkSound
      <3>2. requests[k] # None /\ requests[k] = login[k] /\ login[k] \in Login
        BY <2>7, <3>1 DEF AccessInv, AccessTypeOK
      <3>3. SessionOf(k) \in Carrier /\ Genuine(SessionOf(k), row, counter, store)
            /\ SessionOf(k).sub = login[k].sub
        BY <3>2 DEF SessionOf, Login, Carrier, AccessInv, CarriersSound
      <3>4. CASE login[k].sub # i
        <4>1. login'[k] = login[k] /\ SessionOf(k)' = SessionOf(k)
          BY <3>1, <3>2, <3>4 DEF SessionOf
        <4> QED BY <2>1, <3>2, <3>3, <4>1
      <3>5. CASE login[k].sub = i
        <4>1. login'[k] = [login[k] EXCEPT !.revoked = TRUE]
          BY <3>1, <3>2, <3>5
        <4>2. login'[k] \in Login
          BY <3>2, <4>1 DEF Login
        <4>3. /\ login'[k].sub = login[k].sub /\ login'[k].epoch = login[k].epoch
              /\ login'[k].revoked = TRUE
          BY <3>2, <4>1 DEF Login
        <4>4. SessionOf(k)' = [sub |-> login[k].sub, epoch |-> login[k].epoch, revoked |-> TRUE]
          BY <4>3 DEF SessionOf
        <4>5. [SessionOf(k) EXCEPT !.revoked = TRUE] =
                  [sub |-> login[k].sub, epoch |-> login[k].epoch, revoked |-> TRUE]
          <5> DEFINE marked == TRUE
          <5> HIDE DEF marked
          <5>1. [SessionOf(k) EXCEPT !.revoked = marked] =
                    [sub |-> login[k].sub, epoch |-> login[k].epoch, revoked |-> marked]
            BY DEF SessionOf
          <5> QED BY <5>1 DEF marked
        <4> QED BY <2>3, <3>3, <3>5, <4>2, <4>4, <4>5
      <3> QED BY <3>4, <3>5
    <2>8. wiping' \subseteq Accounts /\ UNCHANGED <<setup, sso>>
      BY <1>4 DEF Replace, AccessInv, AccessTypeOK
    <2>9. AccessTypeOK'
      <3>1. login' = [k \in Logins |-> login'[k]]
        BY <1>4, <2>5 DEF Mark
      <3>2. login' \in [Logins -> Login \cup {None}]
        BY <2>7, <3>1
      <3> QED BY <2>1, <2>6, <2>8, <3>2 DEF AccessInv, AccessTypeOK
    <2>10. CarriersSound'
      BY <2>4, <2>7 DEF CarriersSound
    <2> QED BY <2>1, <2>9, <2>10 DEF AccessInv
  <1> QED BY <1>3, <1>4 DEF Replace

-----------------------------------------------------------------------------
(* Sessions                                                                *)

(* Steps that only move, copy or drop what carries an epoch.               *)
LEMMA CarriersMove ==
    ASSUME AccessInv, UNCHANGED <<row, counter, store, setup, sso>>, wiping' \subseteq Accounts,
           session' \in [SessionTokens -> Carrier \cup {None}],
           kept' \in [SessionTokens -> Carrier \cup {None}],
           login' \in [Logins -> Login \cup {None}],
           \A t \in SessionTokens : session'[t] # None =>
              \/ \E u \in SessionTokens : \/ session'[t] = session[u] /\ session[u] # None
                                          \/ session'[t] = kept[u] /\ kept[u] # None
              \/ \E k \in Logins : login[k] # None /\ session'[t] = SessionOf(k),
           \A t \in SessionTokens : kept'[t] # None =>
              \/ kept'[t] = kept[t]
              \/ kept'[t] = session[t]
              \/ kept'[t] = session'[t],
           \A k \in Logins : login'[k] \in {login[k], None}
    PROVE  AccessInv'
  <1>1. AccessTypeOK'
    BY DEF AccessInv, AccessTypeOK
  <1>2. RowsDrawn'
    BY DEF AccessInv, RowsDrawn
  <1>3. \A t \in SessionTokens : session'[t] # None => Genuine(session'[t], row, counter, store)
    BY DEF AccessInv, CarriersSound
  <1>4. \A t \in SessionTokens : kept'[t] # None => Genuine(kept'[t], row, counter, store)
    BY <1>3 DEF AccessInv, CarriersSound
  <1>5. \A k \in Logins : login'[k] # None => Genuine(SessionOf(k)', row, counter, store)
    BY DEF AccessInv, CarriersSound, SessionOf
  <1>6. CarriersSound'
    BY <1>3, <1>4, <1>5 DEF CarriersSound
  <1> QED BY <1>1, <1>2, <1>6 DEF AccessInv

(* What happens to sessions keeps the invariant.                           *)
LEMMA SessionSteps ==
    ASSUME AccessInv,
           \/ \E t \in SessionTokens : SessionStep(t)
           \/ \E i \in Accounts : WipeSessions(i)
           \/ \E k \in Logins, t \in SessionTokens : IssueSession(k, t)
    PROVE  AccessInv'
  <1> USE DEF SaveSessions
  <1>1. ASSUME NEW t \in SessionTokens, SessionStep(t) PROVE AccessInv'
    BY <1>1, CarriersMove DEF SessionStep, DropSession, RenewSession, SessionExpires, AccessInv,
          AccessTypeOK
  <1>2. ASSUME NEW i \in Accounts, WipeSessions(i) PROVE AccessInv'
    <2>1. session' \in [SessionTokens -> Carrier \cup {None}]
          /\ \A t \in SessionTokens : session'[t] # None => session'[t] = session[t]
      BY <1>2 DEF WipeSessions, AccessInv, AccessTypeOK
    <2>2. kept' \in {session', kept}
      BY <1>2 DEF WipeSessions
    <2> QED BY <1>2, <2>1, <2>2, CarriersMove DEF WipeSessions, AccessInv, AccessTypeOK
  <1>3. ASSUME NEW k \in Logins, NEW t \in SessionTokens, IssueSession(k, t) PROVE AccessInv'
    <2>1. SessionOf(k) \in Carrier
      BY <1>3 DEF IssueSession, SessionOf, Carrier, Login, AccessInv, AccessTypeOK
    <2>2. session' = [session EXCEPT ![t] = SessionOf(k)]
      BY <1>3 DEF IssueSession
    <2>3. session' \in [SessionTokens -> Carrier \cup {None}]
      BY <2>1, <2>2 DEF AccessInv, AccessTypeOK
    <2>4. \A u \in SessionTokens : session'[u] = IF u = t THEN SessionOf(k) ELSE session[u]
      BY <2>2 DEF AccessInv, AccessTypeOK
    <2>5. kept' \in {session', kept} /\ login[k] # None /\ login' = [login EXCEPT ![k] = None]
          /\ UNCHANGED <<row, counter, store, setup, sso, wiping>>
      BY <1>3 DEF IssueSession
    <2> QED BY <2>3, <2>4, <2>5, CarriersMove DEF AccessInv, AccessTypeOK
  <1> QED BY <1>1, <1>2, <1>3

-----------------------------------------------------------------------------
(* Signing in                                                              *)

LEMMA NewRowType ==
    ASSUME AccessInv, counter < MaxEpoch, NEW admin \in BOOLEAN
    PROVE  /\ NewRow(admin) \in AccountRow /\ NewRow(admin).epoch = counter + 1
           /\ counter + 1 \in 0..MaxEpoch /\ counter <= counter + 1
  BY AccessConstants DEF AccessInv, AccessTypeOK, AccessConstants, NewRow, AccountRow

(* What happens in a sign-in keeps the invariant.                          *)
LEMMA SignInSteps ==
    ASSUME AccessInv, NEW k \in Logins,
           \/ \E u \in Users : \/ Setup(k, u)
                               \/ \E for \in {"session", "password"} : Authenticate(k, u, for)
           \/ \E p \in Principals, admin \in BOOLEAN : SsoSignIn(k, p, admin)
    PROVE  AccessInv'
  <1>1. ASSUME NEW u \in Users, Setup(k, u) PROVE AccessInv'
    <2>1. u \in Accounts /\ counter < MaxEpoch
      BY <1>1 DEF Setup, Accounts
    <2>2. NewRow(TRUE) \in AccountRow /\ NewRow(TRUE).epoch = counter + 1
          /\ counter + 1 \in 0..MaxEpoch /\ counter <= counter + 1
      BY <2>1, NewRowType
    <2>3. setup' \in BOOLEAN /\ UNCHANGED <<sso, session, kept, wiping>>
      BY <1>1 DEF Setup, AccessInv, AccessTypeOK
    <2>4. CASE UNCHANGED login /\ SaveFails([row EXCEPT ![u] = NewRow(TRUE)], counter + 1)
      BY <2>1, <2>2, <2>3, <2>4, QuietChange DEF AccessInv, AccessTypeOK
    <2>5. CASE Begins(k, u, "session") /\ PublishUsers([row EXCEPT ![u] = NewRow(TRUE)], counter + 1)
      <3>1. row'[u].epoch = counter + 1 /\ counter' = counter + 1
        BY <2>1, <2>2, <2>5 DEF PublishUsers, AccessInv, AccessTypeOK, Rows
      <3>2. login' = [login EXCEPT ![k] =
                        [sub |-> u, epoch |-> counter + 1, revoked |-> FALSE, for |-> "session"]]
        BY <2>5, <3>1 DEF Begins
      <3>3. login' \in [Logins -> Login \cup {None}]
        BY <2>1, <2>2, <3>2 DEF AccessInv, AccessTypeOK, Login
      <3>4. \A j \in Logins : \/ login'[j] = login[j]
                              \/ ~login'[j].revoked /\ login'[j].epoch <= counter'
        BY <2>2, <3>1, <3>2 DEF AccessInv, AccessTypeOK
      <3> QED BY <2>1, <2>2, <2>3, <2>5, <3>3, <3>4, QuietChange DEF AccessInv, AccessTypeOK
    <2> QED BY <1>1, <2>4, <2>5 DEF Setup
  <1>2. ASSUME NEW u \in Users, NEW for \in {"session", "password"}, Authenticate(k, u, for)
        PROVE  AccessInv'
    <2>1. u \in Accounts /\ row[u] \in AccountRow /\ row[u].epoch <= counter
      BY <1>2 DEF Authenticate, Accounts, AccessInv, AccessTypeOK, Rows, RowsDrawn
    <2>2. UNCHANGED <<row, counter, store, setup, sso, session, kept, wiping>>
      BY <1>2 DEF Authenticate
    <2>3. login' = [login EXCEPT ![k] =
                      [sub |-> u, epoch |-> row[u].epoch, revoked |-> FALSE, for |-> for]]
      BY <1>2, <2>2 DEF Authenticate, Begins
    <2>4. [sub |-> u, epoch |-> row[u].epoch, revoked |-> FALSE, for |-> for] \in Login
      BY <2>1 DEF AccountRow, Login
    <2>5. AccessTypeOK'
      BY <2>2, <2>3, <2>4 DEF AccessInv, AccessTypeOK
    <2>6. RowsDrawn'
      BY <2>2 DEF AccessInv, RowsDrawn
    <2>7. ASSUME NEW j \in Logins, login'[j] # None
          PROVE  Genuine(SessionOf(j)', row, counter, store)
      <3>1. CASE j = k
        BY <2>1, <2>3, <3>1 DEF AccessInv, AccessTypeOK, SessionOf, Genuine
      <3>2. CASE j # k
        BY <2>3, <2>7, <3>2 DEF AccessInv, AccessTypeOK, CarriersSound, SessionOf
      <3> QED BY <3>1, <3>2
    <2>8. CarriersSound'
      BY <2>2, <2>7 DEF AccessInv, CarriersSound
    <2> QED BY <2>5, <2>6, <2>8 DEF AccessInv
  <1>3. ASSUME NEW p \in Principals, NEW admin \in BOOLEAN, SsoSignIn(k, p, admin)
        PROVE  AccessInv'
    <2> DEFINE n == IF row[p] = None THEN counter + 1 ELSE counter
               r == IF row[p] = None THEN NewRow(admin) ELSE [row[p] EXCEPT !.admin = admin]
    <2>1. p \in Accounts /\ n <= MaxEpoch /\ row[p] \in AccountRow \cup {None}
      BY <1>3 DEF SsoSignIn, Accounts, AccessInv, AccessTypeOK, Rows
    <2>2. n \in 0..MaxEpoch /\ counter <= n
      BY <2>1, AccessConstants DEF AccessInv, AccessTypeOK, AccessConstants
    <2>4. /\ r \in AccountRow
          /\ \/ r.epoch = counter + 1 /\ n = counter + 1
             \/ row[p] # None /\ r.epoch = row[p].epoch
          /\ r.epoch <= n
      <3>1. CASE row[p] = None
        <4>1. counter < MaxEpoch
          BY <2>1, <3>1 , AccessConstants DEF AccessInv, AccessTypeOK, AccessConstants
        <4>2. NewRow(admin) \in AccountRow /\ NewRow(admin).epoch = counter + 1
          BY <4>1, NewRowType
        <4>3. r = NewRow(admin) /\ n = counter + 1
          BY <3>1
        <4> HIDE DEF r, n
        <4>4. r.epoch <= n
          BY <2>2, <4>2, <4>3
        <4>5. r \in AccountRow /\ r.epoch = counter + 1 /\ n = counter + 1
          BY <4>2, <4>3, Zenon
        <4> QED BY <4>4, <4>5
      <3>2. CASE row[p] # None
        <4>1. row[p] \in AccountRow /\ row[p].epoch <= counter
          BY <2>1, <3>2 DEF AccessInv, RowsDrawn
        <4>2. r = [row[p] EXCEPT !.admin = admin] /\ n = counter
          BY <3>2
        <4> HIDE DEF r, n
        <4>3. r \in AccountRow /\ r.epoch = row[p].epoch
          BY <4>1, <4>2 DEF AccountRow
        <4> QED BY <3>2, <4>1, <4>2, <4>3
      <3> QED BY <3>1, <3>2
    <2>5. UNCHANGED <<setup, sso, session, kept, wiping>>
      BY <1>3 DEF SsoSignIn
    <2>6. CASE UNCHANGED login /\ SaveFails([row EXCEPT ![p] = r], n)
      BY <2>1, <2>2, <2>4, <2>5, <2>6, QuietChange DEF AccessInv, AccessTypeOK
    <2>7. CASE Begins(k, p, "session") /\ PublishUsers([row EXCEPT ![p] = r], n)
      <3>1. row'[p] = r /\ counter' = n
        BY <2>1, <2>7 DEF PublishUsers, AccessInv, AccessTypeOK, Rows
      <3>2. login' = [login EXCEPT ![k] =
                        [sub |-> p, epoch |-> r.epoch, revoked |-> FALSE, for |-> "session"]]
        BY <2>7, <3>1 DEF Begins
      <3>3. [sub |-> p, epoch |-> r.epoch, revoked |-> FALSE, for |-> "session"] \in Login
        BY <2>1, <2>4 DEF AccountRow, Login
      <3>4. login' \in [Logins -> Login \cup {None}]
        BY <3>2, <3>3 DEF AccessInv, AccessTypeOK
      <3>5. \A j \in Logins : \/ login'[j] = login[j]
                              \/ ~login'[j].revoked /\ login'[j].epoch <= counter'
        BY <2>4, <3>1, <3>2 DEF AccessInv, AccessTypeOK
      <3> HIDE DEF n, r
      <3> QED BY <2>1, <2>2, <2>4, <2>5, <2>7, <3>4, <3>5, QuietChange DEF AccessInv, AccessTypeOK
    <2> QED BY <1>3, <2>6, <2>7 DEF SsoSignIn
  <1> QED BY <1>1, <1>2, <1>3

-----------------------------------------------------------------------------
(* Changes of identities                                                   *)

LEMMA ChangeSteps ==
    ASSUME AccessInv, AdminStep \/ \E k \in Logins : ChangePassword(k)
    PROVE  AccessInv'
  <1>1. Users \subseteq Accounts /\ \A i \in Accounts : row[i] \in AccountRow \cup {None}
    BY DEF Accounts, AccessInv, AccessTypeOK, Rows
  <1>2. ASSUME NEW r \in AccountRow, counter < MaxEpoch
        PROVE  /\ NextEpoch(r) \in AccountRow /\ NextEpoch(r).epoch = counter + 1
               /\ \A admin \in BOOLEAN : LET s == [NextEpoch(r) EXCEPT !.admin = admin]
                                         IN s \in AccountRow /\ s.epoch = counter + 1
    <2>1. counter + 1 \in 0..MaxEpoch
      BY <1>2, AccessConstants DEF AccessInv, AccessTypeOK, AccessConstants
    <2>2. NextEpoch(r) \in AccountRow /\ NextEpoch(r).epoch = counter + 1
      BY <2>1 DEF NextEpoch, AccountRow
    <2> QED BY <2>2 DEF AccountRow
  <1>3. login \in [Logins -> Login \cup {None}]
    BY DEF AccessInv, AccessTypeOK
  <1>4. ASSUME NEW k \in Logins, ChangePassword(k) PROVE AccessInv'
    <2> DEFINE u == login[k].sub
               done == [login EXCEPT ![k] = None]
    <2>1. login[k] \in Login /\ u \in Accounts
      BY <1>3, <1>4 DEF ChangePassword, Login
    <2>2. done \in [Logins -> Login \cup {None}]
          /\ \A j \in Logins : done[j] = login[j] \/ done[j] = None
      BY <1>3
    <2>3. CASE row[u] # None /\ Replace(u, NextEpoch(row[u]), done)
      <3>1. counter < MaxEpoch /\ row[u] \in AccountRow
        BY <1>1, <2>1, <2>3 DEF Replace
      <3>2. NextEpoch(row[u]) \in AccountRow /\ NextEpoch(row[u]).epoch = counter + 1
        BY <1>2, <3>1
      <3> HIDE DEF u, done
      <3> QED BY <2>1, <2>2, <2>3, <3>2, ReplaceStep
    <2>4. CASE login' = done /\ UNCHANGED <<row, counter, store, setup, sso, session, kept, wiping>>
      BY <2>2, <2>4, CarriersMove DEF AccessInv, AccessTypeOK
    <2> QED BY <1>4, <2>3, <2>4 DEF ChangePassword
  <1>5. ASSUME NEW i \in Accounts, ResetOrRevoke(i) PROVE AccessInv'
    <2>1. counter < MaxEpoch /\ row[i] \in AccountRow /\ Replace(i, NextEpoch(row[i]), login)
      BY <1>1, <1>5 DEF ResetOrRevoke, Replace
    <2>2. NextEpoch(row[i]) \in AccountRow /\ NextEpoch(row[i]).epoch = counter + 1
      BY <1>2, <2>1
    <2> QED BY <1>3, <2>1, <2>2, ReplaceStep
  <1>6. ASSUME NEW u \in Users, DeleteUser(u) PROVE AccessInv'
    BY <1>1, <1>3, <1>6, ReplaceStep DEF DeleteUser
  <1>7. ASSUME NEW u \in Users, NEW admin \in BOOLEAN, SetRole(u, admin) PROVE AccessInv'
    <2> DEFINE r == [NextEpoch(row[u]) EXCEPT !.admin = admin]
    <2>1. counter < MaxEpoch /\ row[u] \in AccountRow /\ Replace(u, r, login) /\ u \in Accounts
      BY <1>1, <1>7 DEF SetRole, Replace
    <2>2. r \in AccountRow /\ r.epoch = counter + 1
      BY <1>2, <2>1
    <2> HIDE DEF r
    <2> QED BY <1>3, <2>1, <2>2, ReplaceStep
  <1>8. ASSUME NEW u \in Users, NEW admin \in BOOLEAN, CreateUser(u, admin) PROVE AccessInv'
    <2>1. /\ counter < MaxEpoch /\ u \in Accounts
          /\ UNCHANGED <<setup, sso, session, kept, login, wiping>>
          /\ \/ PublishUsers([row EXCEPT ![u] = NewRow(admin)], counter + 1)
             \/ SaveFails([row EXCEPT ![u] = NewRow(admin)], counter + 1)
      BY <1>1, <1>8 DEF CreateUser
    <2>2. /\ NewRow(admin) \in AccountRow /\ NewRow(admin).epoch = counter + 1
          /\ counter + 1 \in 0..MaxEpoch /\ counter <= counter + 1
      BY <2>1, NewRowType
    <2> QED BY <2>1, <2>2, QuietChange DEF AccessInv, AccessTypeOK
  <1>9. ASSUME NEW u \in Users, NEW profile \in {"role", "none"}, SetProfile(u, profile)
        PROVE  AccessInv'
    <2> DEFINE r == [row[u] EXCEPT !.profile = profile]
    <2>1. /\ u \in Accounts /\ row[u] \in AccountRow /\ row[u] # None
          /\ UNCHANGED <<setup, sso, session, kept, login, wiping>>
      BY <1>1, <1>9 DEF SetProfile
    <2>2. r \in AccountRow /\ r.epoch = row[u].epoch
      BY <2>1 DEF AccountRow
    <2>3. [row EXCEPT ![u].profile = profile] = [row EXCEPT ![u] = r]
      OBVIOUS
    <2>4. \/ PublishUsers([row EXCEPT ![u] = r], counter)
          \/ SaveFails([row EXCEPT ![u] = r], counter)
      BY <1>9, <2>3 DEF SetProfile
    <2>5. counter \in 0..MaxEpoch /\ counter <= counter
      BY DEF AccessInv, AccessTypeOK
    <2> HIDE DEF r
    <2> QED BY <2>1, <2>2, <2>4, <2>5, QuietChange DEF AccessInv, AccessTypeOK
  <1> QED BY <1>4, <1>5, <1>6, <1>7, <1>8, <1>9 DEF AdminStep

-----------------------------------------------------------------------------
(* Restart                                                                 *)

LEMMA RestartStep ==
    ASSUME AccessInv, NEW withSso \in BOOLEAN, NEW env \in Users \cup {None},
           AccessRestart(withSso, env)
    PROVE  AccessInv'
  <1>1. /\ session' = kept /\ kept' = kept /\ login' = [k \in Logins |-> None] /\ wiping' = {}
        /\ setup' \in BOOLEAN /\ sso' \in BOOLEAN
    BY DEF AccessRestart
  <1>2. ASSUME row' \in Rows, counter' \in 0..MaxEpoch, store' \in Store \cup {None},
               RowsDrawn',
               \A c \in Carrier : Genuine(c, row, counter, store) => Genuine(c, row', counter', store')
        PROVE  AccessInv'
    <2>1. AccessTypeOK'
      BY <1>1, <1>2 DEF AccessInv, AccessTypeOK
    <2>2. CarriersSound'
      BY <1>1, <1>2 DEF AccessInv, AccessTypeOK, CarriersSound
    <2> QED BY <1>2, <2>1, <2>2 DEF AccessInv
  <1>3. CASE store # None
    <2>1. row' = store.row /\ counter' = store.counter /\ store' = store
      BY <1>3 DEF AccessRestart
    <2>2. row' \in Rows /\ counter' \in 0..MaxEpoch /\ store' \in Store \cup {None}
          /\ counter \in Nat /\ counter' \in Nat
      BY <1>3, <2>1 DEF AccessInv, AccessTypeOK, Store
    <2>3. RowsDrawn'
      BY <1>3, <2>1, <2>2 DEF AccessInv, RowsDrawn
    <2>4. ASSUME NEW c \in Carrier, Genuine(c, row, counter, store)
          PROVE  Genuine(c, row', counter', store')
      <3>1. c.epoch <= counter'
        BY <1>3, <2>1, <2>2, <2>4 DEF AccessInv, RowsDrawn, Genuine, Carrier
      <3> QED BY <1>3, <2>1, <2>4, <3>1 DEF Genuine
    <2> QED BY <1>2, <2>2, <2>3, <2>4
  <1>4. CASE store = None /\ UNCHANGED <<row, counter, store>>
    <2>1. RowsDrawn'
      BY <1>4 DEF AccessInv, RowsDrawn
    <2> QED BY <1>2, <1>4, <2>1 DEF AccessInv, AccessTypeOK
  <1>5. CASE /\ store = None /\ env \in Users /\ counter < MaxEpoch
             /\ PublishUsers([row EXCEPT ![env] = NewRow(TRUE)], 1)
    <2>1. counter = 0 /\ env \in Accounts
      BY <1>5 DEF AccessInv, RowsDrawn, Accounts
    <2>2. NewRow(TRUE) \in AccountRow /\ NewRow(TRUE).epoch = counter + 1
          /\ counter + 1 \in 0..MaxEpoch /\ counter <= counter + 1
      BY <1>5, NewRowType
    <2>3. PublishUsers([row EXCEPT ![env] = NewRow(TRUE)], counter + 1)
      BY <1>5, <2>1
    <2>4. /\ row' \in Rows /\ counter' \in 0..MaxEpoch /\ store' \in Store \cup {None}
          /\ RowsDrawn'
          /\ \A c \in Carrier : Genuine(c, row, counter, store) => Genuine(c, row', counter', store')
      BY <2>1, <2>2, <2>3, RowChange
    <2> QED BY <1>2, <2>4
  <1> QED BY <1>3, <1>4, <1>5 DEF AccessRestart

(* Every step of the accounts keeps their invariant.                       *)
LEMMA AccessStep == AccessInv /\ [AccessNext]_accessVars => AccessInv'
  <1> SUFFICES ASSUME AccessInv, [AccessNext]_accessVars PROVE AccessInv'
    OBVIOUS
  <1>1. ASSUME NEW k \in Logins, LoginStep(k) PROVE AccessInv'
    BY <1>1, SessionSteps, SignInSteps, ChangeSteps DEF LoginStep
  <1>2. CASE UNCHANGED accessVars
    BY <1>2 DEF accessVars, AccessInv, AccessTypeOK, CarriersSound, RowsDrawn, SessionOf
  <1> QED BY <1>1, <1>2, SessionSteps, ChangeSteps, RestartStep DEF AccessNext

(* The accounts keep their invariant.                                      *)
LEMMA AccessInvariance == AccessSpec => []AccessInv
  <1>1. AccessInit => AccessInv
    <2> SUFFICES ASSUME AccessInit PROVE AccessInv
      OBVIOUS
    <2>1. 0 \in 0..MaxEpoch
      BY AccessConstants DEF AccessConstants
    <2>2. /\ row \in Rows /\ session \in [SessionTokens -> Carrier \cup {None}]
          /\ kept \in [SessionTokens -> Carrier \cup {None}]
          /\ login \in [Logins -> Login \cup {None}]
      BY DEF AccessInit, Rows
    <2>3. setup \in BOOLEAN /\ sso \in BOOLEAN
      BY Zenon DEF AccessInit
    <2>4. AccessTypeOK
      BY <2>1, <2>2, <2>3 DEF AccessInit, AccessTypeOK
    <2>5. CarriersSound /\ RowsDrawn
      BY DEF AccessInit, CarriersSound, RowsDrawn
    <2> QED BY <2>4, <2>5 DEF AccessInv
  <1> QED BY <1>1, AccessStep, PTL DEF AccessSpec

(* Nothing that carries an accepted epoch, in memory, in the file a        *)
(* restart reads or in a request in flight, got it before the last         *)
(* acknowledged change of its identity, across failing saves, lost session *)
(* writes and restarts (authGate.wrap).                                    *)
THEOREM RevocationIsFinal == AccessSpec => []RevokedStaysOut
  <1>1. AccessInv => RevokedStaysOut
    <2> SUFFICES ASSUME AccessInv PROVE RevokedStaysOut
      OBVIOUS
    <2>1. \A t \in SessionTokens :
             /\ session[t] # None /\ Live(session[t]) => ~session[t].revoked
             /\ kept[t] # None /\ Live(kept[t]) => ~kept[t].revoked
      BY DEF AccessInv, CarriersSound, Genuine, Dead, Live
    <2>2. \A k \in Logins : login[k] # None /\ Live(login[k]) => ~login[k].revoked
      BY DEF AccessInv, CarriersSound, Genuine, Dead, Live, SessionOf
    <2> QED BY <2>1, <2>2 DEF RevokedStaysOut
  <1> QED BY <1>1, AccessInvariance, PTL

-----------------------------------------------------------------------------
(* First-run setup                                                         *)

LEMMA SetupStays == AccessInv /\ SetupAlone /\ [AccessNext]_accessVars => SetupAlone'
  <1> SUFFICES ASSUME AccessInv, SetupAlone, [AccessNext]_accessVars, setup'
               PROVE  ~sso' /\ \A i \in Accounts : row'[i] = None
    BY DEF SetupAlone
  <1>1. ASSUME UNCHANGED <<setup, sso, row>>
        PROVE  ~sso' /\ \A i \in Accounts : row'[i] = None
    BY <1>1 DEF SetupAlone
  <1>2. ASSUME NEW withSso \in BOOLEAN, NEW env \in Users \cup {None}, AccessRestart(withSso, env)
        PROVE  ~sso' /\ \A i \in Accounts : row'[i] = None
    <2>1. store = None /\ setup' = ~withSso /\ sso' = withSso /\ row' = row
      BY <1>2 DEF AccessRestart
    <2> QED BY <2>1 DEF AccessInv, RowsDrawn
  <1>3. CASE setup /\ UNCHANGED <<setup, sso>>
    <2>1. ~sso /\ \A i \in Accounts : row[i] = None
      BY <1>3 DEF SetupAlone
    <2>2. \A t \in SessionTokens : ~Accepted(t)
      BY <2>1 DEF Accepted, Live, AccessInv, AccessTypeOK, Carrier
    <2>3. ~SomeAdministrator /\ \A t \in SessionTokens : ~Administrator(t)
      BY <2>2 DEF SomeAdministrator, Administrator
    <2>4. ~AdminStep
      BY <2>1, <2>3 DEF AdminStep, ResetOrRevoke, DeleteUser, SetRole, CreateUser, SetProfile
    <2>5. ASSUME NEW k \in Logins, LoginStep(k) PROVE UNCHANGED row
      <3>1. CASE \E t \in SessionTokens : IssueSession(k, t)
        BY <3>1 DEF IssueSession
      <3>2. CASE \E u \in Users : \/ Authenticate(k, u, "session")
                                  \/ Authenticate(k, u, "password")
        BY <3>2 DEF Authenticate
      <3>3. ASSUME NEW u \in Users, Setup(k, u) PROVE UNCHANGED row
        BY <1>3, <3>3 DEF Setup, SaveFails
      <3>4. CASE ChangePassword(k)
        BY <2>1, <3>4 DEF ChangePassword, AccessInv, AccessTypeOK, Login
      <3>5. CASE \E p \in Principals, admin \in BOOLEAN : SsoSignIn(k, p, admin)
        BY <2>1, <3>5 DEF SsoSignIn
      <3> QED BY <2>5, <3>1, <3>2, <3>3, <3>4, <3>5 DEF LoginStep
    <2>6. ASSUME \/ \E t \in SessionTokens : SessionStep(t)
                 \/ \E i \in Accounts : WipeSessions(i)
          PROVE  UNCHANGED row
      BY <2>6 DEF SessionStep, DropSession, RenewSession, SessionExpires, WipeSessions
    <2>7. ASSUME UNCHANGED row PROVE ~sso' /\ \A i \in Accounts : row'[i] = None
      BY <1>3, <2>1, <2>7
    <2> QED BY <1>2, <2>4, <2>5, <2>6, <2>7 DEF AccessNext, accessVars
  <1>4. UNCHANGED <<setup, sso>> \/ (setup' = FALSE /\ UNCHANGED sso)
        \/ \E withSso \in BOOLEAN, env \in Users \cup {None} : AccessRestart(withSso, env)
    <2>1. ASSUME NEW i \in Accounts, NEW r, NEW requests, Replace(i, r, requests)
          PROVE  UNCHANGED <<setup, sso>>
      BY <2>1 DEF Replace
    <2>2. ASSUME NEW k \in Logins, LoginStep(k)
          PROVE  UNCHANGED <<setup, sso>> \/ (setup' = FALSE /\ UNCHANGED sso)
      <3>1. ASSUME ChangePassword(k) PROVE UNCHANGED <<setup, sso>>
        BY <3>1 DEF ChangePassword, Replace
      <3> QED BY <2>2, <3>1 DEF LoginStep, IssueSession, Setup, Authenticate, SsoSignIn
    <2>3. AdminStep => UNCHANGED <<setup, sso>>
      BY DEF AdminStep, ResetOrRevoke, DeleteUser, SetRole, CreateUser, SetProfile, Replace
    <2>4. ASSUME \/ \E t \in SessionTokens : SessionStep(t)
                 \/ \E i \in Accounts : WipeSessions(i)
          PROVE  UNCHANGED <<setup, sso>>
      BY <2>4 DEF SessionStep, DropSession, RenewSession, SessionExpires, WipeSessions
    <2> QED BY <2>2, <2>3, <2>4 DEF AccessNext, accessVars
  <1> QED BY <1>2, <1>3, <1>4

(* First-run setup is open only while there is no account (newAuthGate,    *)
(* handleSetup), whatever saves fail and however often the process starts. *)
THEOREM SetupIsForFresh == AccessSpec => []SetupOnlyFresh
  <1>1. AccessInit => SetupAlone
    BY DEF AccessInit, SetupAlone
  <1>2. SetupAlone => SetupOnlyFresh
    BY DEF SetupAlone, SetupOnlyFresh
  <1> QED BY <1>1, <1>2, SetupStays, AccessInvariance, PTL DEF AccessSpec

-----------------------------------------------------------------------------
(* The clients that follow an operation.                                   *)
-----------------------------------------------------------------------------

(* What a connected handler has copied, sent and said follows what the     *)
(* operation has appended and how it ended.                                *)
CursorsInOrder ==
    /\ received <= appended
    /\ ended # None => ended <= appended
    /\ stream # None =>
          /\ received <= stream.copied /\ stream.copied <= appended
          /\ stream.closed <=> ended # None
          /\ stream.last => ended # None /\ stream.copied >= ended

StreamInv == StreamTypeOK /\ CursorsInOrder /\ NoWakeupLost /\ CompleteIsWhole

-----------------------------------------------------------------------------
(* A handler that copies what there is, as Subscribe, Woken and Released   *)
(* do, is in order again.                                                  *)
LEMMA CopyingStep ==
    ASSUME StreamInv, NEW token \in BOOLEAN, NEW closed \in BOOLEAN, NEW last \in BOOLEAN,
           closed <=> ended # None, last => ended # None,
           stream' = [copied |-> appended, token |-> token, closed |-> closed, last |-> last],
           UNCHANGED <<appended, ended, received, complete>>
    PROVE  StreamInv'
  <1> USE StreamConstants DEF StreamConstants
  <1>1. stream' \in Stream
    BY DEF StreamInv, StreamTypeOK, Stream
  <1>2. StreamTypeOK'
    BY <1>1 DEF StreamInv, StreamTypeOK
  <1>3. CursorsInOrder'
    BY DEF StreamInv, StreamTypeOK, CursorsInOrder
  <1>4. NoWakeupLost' /\ CompleteIsWhole'
    BY DEF StreamInv, NoWakeupLost, CompleteIsWhole
  <1> QED BY <1>2, <1>3, <1>4 DEF StreamInv

(* Waking and releasing the subscriber, with one more event or without,    *)
(* leaves nothing hidden from it.                                          *)
LEMMA AppendingStep ==
    ASSUME StreamInv, NEW closed \in BOOLEAN,
           \/ /\ appended < MaxStreamed /\ appended' = appended + 1
              /\ stream' = IF closed THEN Closes(Wakes(stream)) ELSE Wakes(stream)
           \/ appended' = appended /\ stream' = IF closed THEN Closes(stream) ELSE stream,
           IF closed THEN ended = None /\ ended' = appended' ELSE ended' = ended,
           UNCHANGED <<received, complete>>
    PROVE  StreamInv'
  <1> USE StreamConstants DEF StreamConstants
  <1>1. CASE stream = None
    BY <1>1 DEF StreamInv, StreamTypeOK, CursorsInOrder, NoWakeupLost, CompleteIsWhole,
                Wakes, Closes
  <1>2. CASE stream \in Stream /\ stream # None
    <2>1. appended' \in 0..MaxStreamed /\ appended' >= appended
      BY DEF StreamInv, StreamTypeOK
    <2>2. stream' \in Stream /\ stream'.copied = stream.copied /\ stream'.last = stream.last
      BY <1>2 DEF Stream, Wakes, Closes
    <2>3. Wakes(stream) \in Stream /\ Wakes(stream) # None
      BY <1>2 DEF Stream, Wakes
    <2>4. stream'.closed <=> stream.closed \/ closed
      BY <1>2, <2>3 DEF Stream, Wakes, Closes
    <2>5. ~stream'.token /\ ~stream'.closed => ~stream.token /\ ~stream.closed /\ appended' = appended
      BY <1>2, <2>3 DEF Stream, Wakes, Closes
    <2>6. StreamTypeOK'
      BY <2>1, <2>2 DEF StreamInv, StreamTypeOK
    <2>7. CursorsInOrder'
      BY <1>2, <2>1, <2>2, <2>4 DEF StreamInv, StreamTypeOK, CursorsInOrder, Stream
    <2>8. NoWakeupLost' /\ CompleteIsWhole'
      BY <1>2, <2>1, <2>2, <2>5 DEF StreamInv, StreamTypeOK, NoWakeupLost, CompleteIsWhole
    <2> QED BY <2>6, <2>7, <2>8 DEF StreamInv
  <1> QED BY <1>1, <1>2 DEF StreamInv, StreamTypeOK

(* Every step of the event stream keeps its invariant.                     *)
LEMMA StreamStep == StreamInv /\ [StreamNext]_streamVars => StreamInv'
  <1> SUFFICES ASSUME StreamInv, [StreamNext]_streamVars PROVE StreamInv'
    OBVIOUS
  <1> USE StreamConstants DEF StreamConstants
  <1>1. CASE Subscribe
    BY <1>1, CopyingStep DEF Subscribe
  <1>2. CASE WriteEvent
    BY <1>2 DEF WriteEvent, StreamInv, StreamTypeOK, CursorsInOrder, NoWakeupLost,
                CompleteIsWhole, Stream
  <1>3. CASE Woken
    <2>1. stream \in Stream
      BY <1>3 DEF Woken, AllSent, StreamInv, StreamTypeOK
    <2>2. stream' = [copied |-> appended, token |-> FALSE, closed |-> stream.closed, last |-> stream.last]
      BY <1>3, <2>1 DEF Woken, Stream
    <2> QED BY <1>3, <2>1, <2>2, CopyingStep DEF Woken, AllSent, StreamInv, CursorsInOrder, Stream
  <1>4. CASE Released
    <2>1. stream \in Stream
      BY <1>4 DEF Released, AllSent, StreamInv, StreamTypeOK
    <2>2. stream' = [copied |-> appended, token |-> stream.token, closed |-> TRUE, last |-> TRUE]
      BY <1>4, <2>1 DEF Released, Stream
    <2> QED BY <1>4, <2>1, <2>2, CopyingStep DEF Released, AllSent, StreamInv, CursorsInOrder, Stream
  <1>5. CASE Complete
    BY <1>5 DEF Complete, AllSent, StreamInv, StreamTypeOK, CursorsInOrder, NoWakeupLost,
                CompleteIsWhole
  <1>6. CASE Drop
    BY <1>6 DEF Drop, StreamInv, StreamTypeOK, CursorsInOrder, NoWakeupLost, CompleteIsWhole
  <1>7. CASE AppendOne
    BY <1>7, AppendingStep DEF AppendOne
  <1>8. CASE FinishStream
    BY <1>8, AppendingStep DEF FinishStream
  <1>9. CASE UNCHANGED streamVars
    BY <1>9 DEF streamVars, StreamInv, StreamTypeOK, CursorsInOrder, NoWakeupLost, CompleteIsWhole
  <1> QED BY <1>1, <1>2, <1>3, <1>4, <1>5, <1>6, <1>7, <1>8, <1>9 DEF StreamNext

(* Where the copies and the tokens of a stream stand, over all steps.      *)
LEMMA StreamInvariance == StreamSpec => []StreamInv
  <1>1. StreamInit => StreamInv
    <2> SUFFICES ASSUME StreamInit PROVE StreamInv
      OBVIOUS
    <2>1. StreamTypeOK
      <3>1. 0 \in 0..MaxStreamed
        BY StreamConstants DEF StreamConstants
      <3> QED BY <3>1, Zenon DEF StreamInit, StreamTypeOK
    <2>2. CursorsInOrder /\ NoWakeupLost /\ CompleteIsWhole
      BY DEF StreamInit, CursorsInOrder, NoWakeupLost, CompleteIsWhole
    <2> QED BY <2>1, <2>2 DEF StreamInv
  <1> QED BY <1>1, StreamStep, PTL DEF StreamSpec

(* No event is left unsent while the handler sleeps, and who was told that *)
(* the replay is complete has it (handleOperationEvents), for any number   *)
(* of events, reconnections and lost wake-ups.                             *)
THEOREM StreamIsHonest == StreamSpec => [](NoWakeupLost /\ CompleteIsWhole)
  <1>1. StreamInv => NoWakeupLost /\ CompleteIsWhole
    BY DEF StreamInv
  <1> QED BY <1>1, StreamInvariance, PTL

-----------------------------------------------------------------------------
(* The turns that change what a server has set up.                         *)
-----------------------------------------------------------------------------

(* An adopted item is covered.                                             *)
AdoptedIsCovered == \A s \in TurnServers : adopted[s] \subseteq With(s, "covered")

(* Until it is recorded, a plan leaves out nothing that any turn adopted.  *)
PlanIsKept ==
    turn # None => \A s \in TurnServers :
        turn.stage[s] \in {"skip", "set", "record"} =>
            turn.plan[s].skipped \cap (adopted[s] \cup turn.plan[s].adopt) = {}

(* What is about to be recorded as on is on; what was recorded is.         *)
OnIsOn ==
    turn # None =>
        /\ turn.ok \subseteq chosen.applied
        /\ \A s \in TurnServers : turn.stage[s] = "record" => s \in turnedOn

TurnInv == TurnTypeOK /\ AdoptedIsCovered /\ PlanIsKept /\ OnIsOn /\ ChoiceIsKept

-----------------------------------------------------------------------------
(* Typing                                                                  *)

LEMMA PlanForType ==
    ASSUME NEW s \in TurnServers, turn \in TurnOn
    PROVE  /\ PlanFor(s).plan \in Plan
           /\ PlanFor(s).plan.skipped \subseteq With(s, "unmanaged")
           /\ PlanFor(s).plan.skipped \cap PlanFor(s).plan.adopt = {}
  BY DEF PlanFor, Plan, With, TurnOn

(* A turn that moves one server on is a turn.                              *)
LEMMA StageType ==
    ASSUME NEW s \in TurnServers, turn \in TurnOn, NEW stage \in TurnStage
    PROVE  [turn EXCEPT !.stage[s] = stage] \in TurnOn
  BY DEF TurnOn

(* A turn that reads one server's plan is a turn.                          *)
LEMMA ReadType ==
    ASSUME NEW s \in TurnServers, turn \in TurnOn, NEW stage \in TurnStage, NEW p \in Plan
    PROVE  [turn EXCEPT !.stage[s] = stage, !.plan[s] = p] \in TurnOn
  BY DEF TurnOn

(* Storing a plan keeps the types of what is stored.                       *)
LEMMA StoredType ==
    ASSUME TurnTypeOK, NEW s \in TurnServers, turn \in TurnOn, Stored(s)
    PROVE  /\ coverage' \in [TurnServers -> [TurnItems -> Coverage]]
           /\ turnedOn' \subseteq TurnServers
           /\ adopted' \in [TurnServers -> SUBSET TurnItems]
  <1>1. turn.plan[s].adopt \subseteq TurnItems
    BY DEF TurnOn, Plan
  <1> QED BY <1>1 DEF Stored, TurnTypeOK, Coverage

(* Every step of a turn keeps the types.                                   *)
LEMMA TurnTyping == TurnTypeOK /\ [TurnNext]_turnVars => TurnTypeOK'
  <1> SUFFICES ASSUME TurnTypeOK, [TurnNext]_turnVars PROVE TurnTypeOK'
    OBVIOUS
  <1> USE TurnConstants DEF TurnConstants
  <1>1. ASSUME NEW skip \in SUBSET (TurnItems \ {VolumesItem}), NEW volumes \in BOOLEAN,
               NEW now \in BOOLEAN, BeginTurn(skip, volumes, now)
        PROVE  TurnTypeOK'
    <2>1. NoPlan \in Plan /\ "read" \in TurnStage
      BY DEF NoPlan, Plan, TurnStage
    <2>2. turn' \in TurnOn
      BY <1>1, <2>1 DEF BeginTurn, TurnOn
    <2> QED BY <1>1, <2>2 DEF BeginTurn, TurnTypeOK
  <1>2. ASSUME NEW s \in TurnServers, At(s, "read"), ReadCoverage(s)
        PROVE  TurnTypeOK'
    <2>1. turn \in TurnOn
      BY <1>2 DEF At, TurnTypeOK
    <2>2. turn' \in TurnOn
      <3>1. CASE turn' = [turn EXCEPT !.stage[s] = "done"]
        BY <2>1, <3>1, StageType DEF TurnStage
      <3>2. ASSUME NEW stage \in {"skip", "set"},
                   turn' = [turn EXCEPT !.stage[s] = stage, !.plan[s] = PlanFor(s).plan]
            PROVE  turn' \in TurnOn
        BY <2>1, <3>2, ReadType, PlanForType DEF TurnStage
      <3> QED BY <1>2, <3>1, <3>2 DEF ReadCoverage
    <2> QED BY <1>2, <2>2 DEF ReadCoverage, TurnTypeOK
  <1>3. ASSUME NEW s \in TurnServers, SkipWhole(s)
        PROVE  TurnTypeOK'
    <2>1. turn \in TurnOn
      BY <1>3 DEF SkipWhole, At, TurnTypeOK
    <2>2. turn' \in TurnOn
      BY <1>3, <2>1, StageType DEF SkipWhole, TurnStage
    <2>3. turn.plan[s].skipped \subseteq TurnItems
      BY <2>1 DEF TurnOn, Plan
    <2>4. chosen' \in Chosen
      BY <1>3, <2>3 DEF SkipWhole, TurnTypeOK, Chosen
    <2> QED BY <1>3, <2>2, <2>4 DEF SkipWhole, TurnTypeOK
  <1>4. ASSUME NEW s \in TurnServers, SetOn(s)
        PROVE  TurnTypeOK'
    <2>1. turn \in TurnOn
      BY <1>4 DEF SetOn, At, TurnTypeOK
    <2>2. turn' \in TurnOn
      BY <1>4, <2>1, StageType DEF SetOn, TurnStage
    <2>3. unsure' \subseteq TurnServers
      BY <1>4 DEF SetOn, TurnTypeOK
    <2>4. CASE Stored(s)
      BY <1>4, <2>1, <2>2, <2>3, <2>4, StoredType DEF SetOn, TurnTypeOK
    <2>5. CASE UNCHANGED <<coverage, turnedOn, adopted>>
      BY <1>4, <2>2, <2>3, <2>5 DEF SetOn, TurnTypeOK
    <2> QED BY <1>4, <2>4, <2>5 DEF SetOn
  <1>5. ASSUME NEW s \in TurnServers, RecordOn(s)
        PROVE  TurnTypeOK'
    <2>1. turn \in TurnOn
      BY <1>5 DEF RecordOn, At, TurnTypeOK
    <2>2. turn' \in TurnOn
      BY <1>5, <2>1 DEF RecordOn, TurnStage, TurnOn
    <2>3. turn.plan[s].skipped \subseteq TurnItems
      BY <2>1 DEF TurnOn, Plan
    <2>4. chosen' \in Chosen
      BY <1>5, <2>3 DEF RecordOn, TurnTypeOK, Chosen
    <2> QED BY <1>5, <2>2, <2>4 DEF RecordOn, TurnTypeOK
  <1>6. ASSUME NEW s \in TurnServers, StartFirst(s)
        PROVE  TurnTypeOK'
    <2>1. turn \in TurnOn
      BY <1>6 DEF StartFirst, At, TurnTypeOK
    <2>2. turn' \in TurnOn
      BY <1>6, <2>1, StageType DEF StartFirst, TurnStage
    <2>3. chosen' \in Chosen
      BY <1>6 DEF StartFirst, TurnTypeOK, Chosen
    <2> QED BY <1>6, <2>2, <2>3 DEF StartFirst, TurnTypeOK
  <1>7. ASSUME NEW s \in TurnServers, StartByHand(s)
        PROVE  TurnTypeOK'
    <2>1. chosen' \in Chosen
      BY <1>7 DEF StartByHand, TurnTypeOK, Chosen
    <2> QED BY <1>7, <2>1 DEF StartByHand, TurnTypeOK
  <1>8. ASSUME NEW s \in TurnServers, NEW i \in TurnItems, NEW status \in Coverage,
               ItemMoves(s, i, status)
        PROVE  TurnTypeOK'
    <2>1. coverage' \in [TurnServers -> [TurnItems -> Coverage]]
      BY <1>8 DEF ItemMoves, TurnTypeOK
    <2>2. adopted' \in [TurnServers -> SUBSET TurnItems]
      BY <1>8 DEF ItemMoves, TurnTypeOK
    <2> QED BY <1>8, <2>1, <2>2 DEF ItemMoves, TurnTypeOK
  <1>9. CASE EndTurn
    <2>1. turn \in TurnOn
      BY <1>9 DEF EndTurn, TurnTypeOK
    <2>2. chosen' \in Chosen
      BY <1>9 DEF EndTurn, TurnTypeOK, Chosen
    <2> QED BY <1>9, <2>2 DEF EndTurn, TurnTypeOK
  <1>10. CASE TurnCrashes
    BY <1>10 DEF TurnCrashes, TurnTypeOK
  <1>11. CASE UNCHANGED turnVars
    BY <1>11 DEF turnVars, TurnTypeOK
  <1>12. \A s \in TurnServers : ReadCoverage(s) => At(s, "read")
    BY DEF ReadCoverage
  <1> QED BY <1>1, <1>2, <1>3, <1>4, <1>5, <1>6, <1>7, <1>8, <1>9, <1>10, <1>11, <1>12
          DEF TurnNext

-----------------------------------------------------------------------------
(* The invariant, one lemma per kind of step.                              *)

(* A step of the turn that records nothing and changes no server, and      *)
(* leaves no plan to be recorded.                                          *)
LEMMA QuietStage ==
    ASSUME TurnInv, turn \in TurnOn, turn # None, NEW s \in TurnServers,
           NEW stage \in {"start", "done"}, turn.stage[s] # "record",
           turn' = [turn EXCEPT !.stage[s] = stage],
           chosen'.skipped = chosen.skipped, chosen'.applied = chosen.applied,
           chosen'.policy = chosen.policy,
           UNCHANGED <<coverage, turnedOn, adopted, unsure>>
    PROVE  AdoptedIsCovered' /\ PlanIsKept' /\ OnIsOn' /\ ChoiceIsKept'
  <1>1. \A t \in TurnServers : /\ turn'.stage[t] = IF t = s THEN stage ELSE turn.stage[t]
                               /\ turn'.plan[t] = turn.plan[t]
    BY DEF TurnOn
  <1>2. turn'.ok = turn.ok
    BY DEF TurnOn
  <1>3. AdoptedIsCovered'
    BY DEF TurnInv, AdoptedIsCovered, With
  <1>4. PlanIsKept'
    BY <1>1 DEF TurnInv, PlanIsKept
  <1>5. OnIsOn'
    BY <1>1, <1>2 DEF TurnInv, OnIsOn
  <1>6. turn' # None
    BY StageType, TurnConstants DEF TurnConstants, TurnStage
  <1>7. ChoiceIsKept'
    BY <1>1, <1>6 DEF TurnInv, ChoiceIsKept, At
  <1> QED BY <1>3, <1>4, <1>5, <1>7

(* The read of a server: a plan leaves out what is unmanaged there, hence  *)
(* nothing that was adopted.                                               *)
LEMMA ReadStep ==
    ASSUME TurnInv, NEW s \in TurnServers, ReadCoverage(s)
    PROVE  AdoptedIsCovered' /\ PlanIsKept' /\ OnIsOn' /\ ChoiceIsKept'
  <1>1. turn \in TurnOn /\ turn # None /\ turn.stage[s] = "read"
    BY DEF ReadCoverage, At, TurnInv, TurnTypeOK
  <1>2. CASE turn' = [turn EXCEPT !.stage[s] = "done"]
    BY <1>1, <1>2, QuietStage DEF ReadCoverage
  <1>3. ASSUME NEW stage \in {"skip", "set"},
               turn' = [turn EXCEPT !.stage[s] = stage, !.plan[s] = PlanFor(s).plan]
        PROVE  AdoptedIsCovered' /\ PlanIsKept' /\ OnIsOn' /\ ChoiceIsKept'
    <2>1. \A t \in TurnServers :
             /\ turn'.stage[t] = IF t = s THEN stage ELSE turn.stage[t]
             /\ turn'.plan[t] = IF t = s THEN PlanFor(s).plan ELSE turn.plan[t]
      BY <1>1, <1>3 DEF TurnOn
    <2>2. turn'.ok = turn.ok
      BY <1>1, <1>3 DEF TurnOn
    <2>3. UNCHANGED <<coverage, turnedOn, chosen, adopted, unsure>>
      BY DEF ReadCoverage
    <2>4. AdoptedIsCovered'
      BY <2>3 DEF TurnInv, AdoptedIsCovered, With
    <2>5. PlanFor(s).plan.skipped \cap (adopted[s] \cup PlanFor(s).plan.adopt) = {}
      BY <1>1, PlanForType DEF TurnInv, AdoptedIsCovered, With
    <2>6. PlanIsKept'
      BY <1>1, <2>1, <2>3, <2>5 DEF TurnInv, PlanIsKept
    <2>7. OnIsOn'
      BY <1>1, <2>1, <2>2, <2>3 DEF TurnInv, OnIsOn
    <2>8. turn' # None
      <3>1. PlanFor(s).plan \in Plan /\ stage \in TurnStage
        BY <1>1, PlanForType DEF TurnStage
      <3>2. turn' \in TurnOn
        BY <1>1, <1>3, <3>1, ReadType
      <3> QED BY <3>2, TurnConstants DEF TurnConstants
    <2>9. ChoiceIsKept'
      BY <1>1, <1>3, <2>1, <2>3, <2>8 DEF TurnInv, ChoiceIsKept, At
    <2> QED BY <2>4, <2>6, <2>7, <2>9
  <1> QED BY <1>2, <1>3 DEF ReadCoverage

(* A server on which all was left out.                                     *)
LEMMA SkipStep ==
    ASSUME TurnInv, NEW s \in TurnServers, SkipWhole(s)
    PROVE  AdoptedIsCovered' /\ PlanIsKept' /\ OnIsOn' /\ ChoiceIsKept'
  <1>1. turn \in TurnOn /\ turn # None /\ turn.stage[s] = "skip"
    BY DEF SkipWhole, At, TurnInv, TurnTypeOK
  <1>2. \A t \in TurnServers : /\ turn'.stage[t] = IF t = s THEN "done" ELSE turn.stage[t]
                               /\ turn'.plan[t] = turn.plan[t]
    BY <1>1 DEF SkipWhole, TurnOn
  <1>3. turn'.ok = turn.ok
    BY <1>1 DEF SkipWhole, TurnOn
  <1>4. /\ \A t \in TurnServers :
              chosen'.skipped[t] = IF t = s THEN turn.plan[s].skipped ELSE chosen.skipped[t]
        /\ chosen'.applied = chosen.applied /\ chosen'.policy = chosen.policy
    BY DEF SkipWhole, TurnInv, TurnTypeOK, Chosen
  <1>5. UNCHANGED <<coverage, turnedOn, adopted, unsure>>
    BY DEF SkipWhole
  <1>6. AdoptedIsCovered'
    BY <1>5 DEF TurnInv, AdoptedIsCovered, With
  <1>7. PlanIsKept'
    BY <1>1, <1>2, <1>5 DEF TurnInv, PlanIsKept
  <1>8. OnIsOn'
    BY <1>1, <1>2, <1>3, <1>4, <1>5 DEF TurnInv, OnIsOn
  <1>9. turn.plan[s].skipped \cap adopted[s] = {}
    BY <1>1 DEF TurnInv, PlanIsKept
  <1>10. turn' # None
    BY <1>1, StageType, TurnConstants DEF SkipWhole, TurnConstants, TurnStage
  <1>11. ChoiceIsKept'
    BY <1>1, <1>2, <1>4, <1>5, <1>9, <1>10 DEF TurnInv, ChoiceIsKept, At
  <1> QED BY <1>6, <1>7, <1>8, <1>11

(* The call that sets the policy: what it adopts was not to be left out.   *)
LEMMA SetStep ==
    ASSUME TurnInv, NEW s \in TurnServers, SetOn(s)
    PROVE  AdoptedIsCovered' /\ PlanIsKept' /\ OnIsOn' /\ ChoiceIsKept'
  <1>1. turn \in TurnOn /\ turn # None /\ turn.stage[s] = "set"
    BY DEF SetOn, At, TurnInv, TurnTypeOK
  <1>2. CASE UNCHANGED <<coverage, turnedOn, adopted, unsure>>
             /\ turn' = [turn EXCEPT !.stage[s] = "done"]
    BY <1>1, <1>2, QuietStage DEF SetOn
  <1>3. ASSUME NEW stage \in {"record", "done"}, Stored(s),
               turn' = [turn EXCEPT !.stage[s] = stage],
               unsure' = IF stage = "done" THEN unsure \cup {s} ELSE unsure
        PROVE  AdoptedIsCovered' /\ PlanIsKept' /\ OnIsOn' /\ ChoiceIsKept'
    <2>1. \A t \in TurnServers : /\ turn'.stage[t] = IF t = s THEN stage ELSE turn.stage[t]
                                 /\ turn'.plan[t] = turn.plan[t]
      BY <1>1, <1>3 DEF TurnOn
    <2>2. turn'.ok = turn.ok
      BY <1>1, <1>3 DEF TurnOn
    <2>3. turn.plan[s].adopt \subseteq TurnItems
      BY <1>1 DEF TurnOn, Plan
    <2>4. \A t \in TurnServers :
             adopted'[t] = IF t = s THEN adopted[s] \cup turn.plan[s].adopt ELSE adopted[t]
      BY <1>3 DEF Stored, TurnInv, TurnTypeOK
    <2>5. \A t \in TurnServers, i \in TurnItems :
             coverage'[t][i] = IF t = s /\ i \in turn.plan[s].adopt THEN "covered"
                               ELSE coverage[t][i]
      BY <1>3 DEF Stored, TurnInv, TurnTypeOK
    <2>6. UNCHANGED chosen
      BY DEF SetOn
    <2>7. AdoptedIsCovered'
      BY <2>3, <2>4, <2>5 DEF TurnInv, AdoptedIsCovered, With
    <2>8. PlanIsKept'
      BY <1>1, <2>1, <2>4 DEF TurnInv, PlanIsKept
    <2>9. OnIsOn'
      BY <1>1, <1>3, <2>1, <2>2, <2>6 DEF TurnInv, OnIsOn, Stored
    <2>10. chosen.applied \subseteq turnedOn'
      BY <1>3 DEF TurnInv, ChoiceIsKept, Stored
    <2>11. turn' # None
      BY <1>1, <1>3, StageType, TurnConstants DEF TurnConstants, TurnStage
    <2>12. ChoiceIsKept'
      BY <1>1, <1>3, <2>1, <2>4, <2>6, <2>10, <2>11 DEF TurnInv, ChoiceIsKept, At
    <2> QED BY <2>7, <2>8, <2>9, <2>12
  <1> QED BY <1>2, <1>3 DEF SetOn

(* The record of a server that was set.                                    *)
LEMMA RecordStep ==
    ASSUME TurnInv, NEW s \in TurnServers, RecordOn(s)
    PROVE  AdoptedIsCovered' /\ PlanIsKept' /\ OnIsOn' /\ ChoiceIsKept'
  <1>1. turn \in TurnOn /\ turn # None /\ turn.stage[s] = "record"
    BY DEF RecordOn, At, TurnInv, TurnTypeOK
  <1>2. PICK stage \in {"start", "done"} :
             turn' = [turn EXCEPT !.stage[s] = stage, !.ok = @ \cup {s}]
    BY DEF RecordOn
  <1>3. \A t \in TurnServers : /\ turn'.stage[t] = IF t = s THEN stage ELSE turn.stage[t]
                               /\ turn'.plan[t] = turn.plan[t]
    BY <1>1, <1>2 DEF TurnOn
  <1>4. turn'.ok = turn.ok \cup {s}
    BY <1>1, <1>2 DEF TurnOn
  <1>5. turn' # None
    <2>1. turn' \in TurnOn
      BY <1>1, <1>2 DEF TurnOn, TurnStage
    <2> QED BY <2>1, TurnConstants DEF TurnConstants
  <1>6. /\ \A t \in TurnServers :
              chosen'.skipped[t] = IF t = s THEN turn.plan[s].skipped ELSE chosen.skipped[t]
        /\ chosen'.applied = chosen.applied \cup {s} /\ chosen'.policy = chosen.policy
    BY DEF RecordOn, TurnInv, TurnTypeOK, Chosen
  <1>7. UNCHANGED <<coverage, turnedOn, adopted>> /\ unsure' = unsure \ {s}
    BY DEF RecordOn
  <1>8. AdoptedIsCovered'
    BY <1>7 DEF TurnInv, AdoptedIsCovered, With
  <1>9. PlanIsKept'
    BY <1>1, <1>3, <1>7 DEF TurnInv, PlanIsKept
  <1>10. OnIsOn'
    BY <1>1, <1>3, <1>4, <1>6, <1>7 DEF TurnInv, OnIsOn
  <1>11. turn.plan[s].skipped \cap adopted[s] = {} /\ s \in turnedOn
    BY <1>1 DEF TurnInv, PlanIsKept, OnIsOn
  <1>12. ChoiceIsKept'
    BY <1>1, <1>3, <1>5, <1>6, <1>7, <1>11 DEF TurnInv, ChoiceIsKept, At
  <1> QED BY <1>8, <1>9, <1>10, <1>12

(* Somebody's change on a server: what is adopted no longer is what moved. *)
LEMMA MoveStep ==
    ASSUME TurnInv, NEW s \in TurnServers, NEW i \in TurnItems, NEW status \in Coverage,
           ItemMoves(s, i, status)
    PROVE  AdoptedIsCovered' /\ PlanIsKept' /\ OnIsOn' /\ ChoiceIsKept'
  <1>1. \A t \in TurnServers :
           /\ adopted'[t] = IF t = s THEN adopted[s] \ {i} ELSE adopted[t]
           /\ \A j \in TurnItems : coverage'[t][j] = IF t = s /\ j = i THEN status
                                                     ELSE coverage[t][j]
    BY DEF ItemMoves, TurnInv, TurnTypeOK
  <1>2. UNCHANGED <<turnedOn, chosen, turn, unsure>>
    BY DEF ItemMoves
  <1>3. AdoptedIsCovered'
    BY <1>1 DEF TurnInv, AdoptedIsCovered, With
  <1>4. PlanIsKept'
    BY <1>1, <1>2 DEF TurnInv, PlanIsKept
  <1>5. OnIsOn'
    BY <1>2 DEF TurnInv, OnIsOn
  <1>6. ChoiceIsKept'
    BY <1>1, <1>2 DEF TurnInv, ChoiceIsKept, At
  <1> QED BY <1>3, <1>4, <1>5, <1>6

(* Every step of a turn keeps its invariant.                               *)
LEMMA TurnStep == TurnInv /\ [TurnNext]_turnVars => TurnInv'
  <1> SUFFICES ASSUME TurnInv, [TurnNext]_turnVars
               PROVE  AdoptedIsCovered' /\ PlanIsKept' /\ OnIsOn' /\ ChoiceIsKept'
    BY TurnTyping DEF TurnInv
  <1>1. ASSUME NEW skip \in SUBSET (TurnItems \ {VolumesItem}), NEW volumes \in BOOLEAN,
               NEW now \in BOOLEAN, BeginTurn(skip, volumes, now)
        PROVE  AdoptedIsCovered' /\ PlanIsKept' /\ OnIsOn' /\ ChoiceIsKept'
    <2>1. \A s \in TurnServers : turn'.stage[s] = "read"
      BY <1>1 DEF BeginTurn
    <2>2. turn'.ok = {}
      BY <1>1 DEF BeginTurn
    <2>3. turn = None /\ UNCHANGED <<coverage, turnedOn, chosen, adopted, unsure>>
      BY <1>1 DEF BeginTurn
    <2>4. AdoptedIsCovered' /\ PlanIsKept' /\ OnIsOn'
      BY <2>1, <2>2, <2>3 DEF TurnInv, AdoptedIsCovered, With, PlanIsKept, OnIsOn
    <2>5. ChoiceIsKept'
      BY <2>1, <2>3 DEF TurnInv, ChoiceIsKept, At
    <2> QED BY <2>4, <2>5
  <1>2. ASSUME NEW s \in TurnServers, StartFirst(s)
        PROVE  AdoptedIsCovered' /\ PlanIsKept' /\ OnIsOn' /\ ChoiceIsKept'
    <2>1. turn \in TurnOn /\ turn # None /\ turn.stage[s] = "start"
      BY <1>2 DEF StartFirst, At, TurnInv, TurnTypeOK
    <2>2. /\ chosen'.skipped = chosen.skipped /\ chosen'.applied = chosen.applied
          /\ chosen'.policy = chosen.policy
      BY <1>2 DEF StartFirst, TurnInv, TurnTypeOK, Chosen
    <2> QED BY <1>2, <2>1, <2>2, QuietStage DEF StartFirst
  <1>3. ASSUME NEW s \in TurnServers, StartByHand(s)
        PROVE  AdoptedIsCovered' /\ PlanIsKept' /\ OnIsOn' /\ ChoiceIsKept'
    <2>1. /\ chosen'.skipped = chosen.skipped /\ chosen'.applied = chosen.applied
          /\ chosen'.policy = chosen.policy
          /\ UNCHANGED <<coverage, turnedOn, turn, adopted, unsure>>
      BY <1>3 DEF StartByHand, TurnInv, TurnTypeOK, Chosen
    <2> QED BY <2>1 DEF TurnInv, AdoptedIsCovered, With, PlanIsKept, OnIsOn, ChoiceIsKept, At
  <1>4. CASE EndTurn
    <2>1. /\ turn # None /\ turn' = None
          /\ \A s \in TurnServers : turn.stage[s] = "done"
          /\ UNCHANGED <<coverage, turnedOn, adopted, unsure>>
      BY <1>4 DEF EndTurn
    <2>2. /\ chosen'.skipped = chosen.skipped /\ chosen'.applied = chosen.applied
          /\ chosen'.policy = (chosen.policy \/ turn.ok # {})
      BY <1>4 DEF EndTurn, TurnInv, TurnTypeOK, Chosen
    <2>3. AdoptedIsCovered' /\ PlanIsKept' /\ OnIsOn'
      BY <2>1 DEF TurnInv, AdoptedIsCovered, With, PlanIsKept, OnIsOn
    <2>4. ChoiceIsKept'
      BY <2>1, <2>2 DEF TurnInv, OnIsOn, ChoiceIsKept, At
    <2> QED BY <2>3, <2>4
  <1>5. CASE TurnCrashes
    <2>1. /\ turn # None /\ turn' = None
          /\ unsure' = unsure \cup {s \in TurnServers : turn.stage[s] = "record"}
          /\ UNCHANGED <<coverage, turnedOn, chosen, adopted>>
      BY <1>5 DEF TurnCrashes
    <2> QED BY <2>1 DEF TurnInv, AdoptedIsCovered, With, PlanIsKept, OnIsOn, ChoiceIsKept, At
  <1>6. CASE UNCHANGED turnVars
    BY <1>6 DEF turnVars, TurnInv, AdoptedIsCovered, With, PlanIsKept, OnIsOn, ChoiceIsKept, At
  <1> QED BY <1>1, <1>2, <1>3, <1>4, <1>5, <1>6, ReadStep, SkipStep, SetStep, RecordStep,
             MoveStep DEF TurnNext

(* What a turn has adopted and planned, over all steps.                    *)
LEMMA TurnInvariance == TurnSpec => []TurnInv
  <1>1. TurnInit => TurnInv
    <2> SUFFICES ASSUME TurnInit PROVE TurnInv
      OBVIOUS
    <2>1. chosen \in Chosen
      BY DEF TurnInit, Chosen
    <2>2. coverage \in [TurnServers -> [TurnItems -> Coverage]]
      BY DEF TurnInit, Coverage
    <2>3. itemMoves \in 0..MaxItemMoves
      BY TurnConstants DEF TurnInit, TurnConstants
    <2>4. TurnTypeOK
      BY <2>1, <2>2, <2>3 DEF TurnInit, TurnTypeOK
    <2>5. AdoptedIsCovered /\ PlanIsKept /\ OnIsOn /\ ChoiceIsKept
      BY DEF TurnInit, AdoptedIsCovered, PlanIsKept, OnIsOn, ChoiceIsKept
    <2> QED BY <2>4, <2>5 DEF TurnInv
  <1> QED BY <1>1, TurnStep, PTL DEF TurnSpec

(* Over any number of turns with any choices, on any number of servers,    *)
(* Dash's record calls nothing left out that a turn adopted and nothing on *)
(* that is not (handleSetupTurnOn).                                        *)
THEOREM ChoicesAreKept == TurnSpec => []ChoiceIsKept
  <1>1. TurnInv => ChoiceIsKept
    BY DEF TurnInv
  <1> QED BY <1>1, TurnInvariance, PTL

-----------------------------------------------------------------------------
(* The groups of projects that the owner changes.                          *)
-----------------------------------------------------------------------------

(* A group whose projects have names of their own.                         *)
SoundGroup == {g \in AppGroup : Distinct(g.projects)}

(* Only the process that holds the lock has read the file, and nobody has  *)
(* written it since.                                                       *)
LoadedIsFile == \A d \in Dashes : loaded[d] # None => lockedBy = d /\ loaded[d] = groupsFile

GroupInv ==
    /\ GroupTypeOK /\ WritesAddUp /\ LoadedIsFile
    /\ groupsFile \in Seq(SoundGroup) /\ Distinct(groupsFile)

-----------------------------------------------------------------------------
(* Lists of names.                                                         *)

(* Position is that of an entry of the name, 0 when there is none.         *)
LEMMA PositionFinds ==
    ASSUME NEW S, NEW entries \in Seq(S), NEW name
    PROVE  /\ Position(entries, name) \in 0..Len(entries)
           /\ Position(entries, name) # 0 => entries[Position(entries, name)].name = name
           /\ Position(entries, name) = 0 => \A i \in 1..Len(entries) : entries[i].name # name
  <1> DEFINE I == {i \in 1..Len(entries) : entries[i].name = name}
  <1>1. Position(entries, name) = IF I # {} THEN Min(I) ELSE 0
    BY DEF Position, SelectInSeq
  <1>2. CASE I = {}
    BY <1>1, <1>2
  <1>3. CASE I # {}
    <2>1. I \in SUBSET Nat
      OBVIOUS
    <2>2. \E n \in I : \A m \in I : n <= m
      <3> HIDE DEF I
      <3> QED BY <1>3, <2>1, LeastNumber
    <2>3. Min(I) \in I
      <3> HIDE DEF I
      <3> QED BY <2>2, Zenon DEF Min
    <2> QED BY <1>1, <1>3, <2>3
  <1> QED BY <1>2, <1>3

(* Deleting a name leaves entries of the list, in a list of its own.       *)
LEMMA WithoutKeeps ==
    ASSUME NEW S, NEW entries \in Seq(S), NEW name, Distinct(entries)
    PROVE  Without(entries, name) \in Seq(S) /\ Distinct(Without(entries, name))
  <1> DEFINE A == {e \in ToSet(entries) : e.name # name}
             rest == Filtered(entries, A)
  <1>1. NoRepeats(entries)
    BY DEF Distinct, NoRepeats
  <1>2. rest \in Seq(S) /\ Elements(rest) = Elements(entries) \cap A /\ NoRepeats(rest)
    <2> HIDE DEF A
    <2> QED BY <1>1, FilteredHolds
  <1> HIDE DEF rest
  <1>3. ASSUME NEW i \in 1..Len(rest), NEW j \in 1..Len(rest), rest[i].name = rest[j].name
        PROVE  i = j
    <2>1. rest[i] \in Elements(entries) /\ rest[j] \in Elements(entries)
      BY <1>2 DEF Elements
    <2>2. PICK a \in 1..Len(entries) : entries[a] = rest[i]
      BY <2>1 DEF Elements
    <2>3. PICK b \in 1..Len(entries) : entries[b] = rest[j]
      BY <2>1 DEF Elements
    <2>4. a = b
      BY <1>3, <2>2, <2>3 DEF Distinct
    <2> QED BY <1>2, <2>2, <2>3, <2>4 DEF NoRepeats
  <1>4. Without(entries, name) = rest
    BY DEF Without, rest
  <1> QED BY <1>2, <1>3, <1>4 DEF Distinct

WithName(e, name) == [e EXCEPT !.name = name]

(* Creating, deleting and renaming keep a list of distinct names one.      *)
LEMMA ListedKeeps ==
    ASSUME NEW S, NEW entries \in Seq(S), Distinct(entries), NEW name, NEW new \in S, NEW q,
           q.op \in {"create", "delete", "rename"},
           \A e \in S : WithName(e, q.to) \in S /\ WithName(e, q.to).name = q.to,
           NEW after, after = Listed(q, entries, name, new), after # None
    PROVE  after \in Seq(S) /\ Distinct(after)
  <1>1. CASE q.op = "create"
    <2>1. after = Created(entries, new)
      BY <1>1 DEF Listed
    <2>2. Position(entries, new.name) = 0 /\ after = Append(entries, new)
      <3>1. Position(entries, new.name) \in Nat
        BY PositionFinds
      <3> QED BY <2>1, <3>1 DEF Created
    <2>3. \A i \in 1..Len(entries) : entries[i].name # new.name
      BY <2>2, PositionFinds
    <2> QED BY <2>2, <2>3 DEF Distinct
  <1>2. CASE q.op = "delete"
    <2>1. after = Without(entries, name)
      BY <1>2 DEF Listed
    <2> QED BY <2>1, WithoutKeeps
  <1>3. CASE q.op = "rename"
    <2> DEFINE p == Position(entries, name)
               moved == WithName(entries[p], q.to)
    <2>1. after = Renamed(entries, name, q.to)
      BY <1>3 DEF Listed
    <2>2. /\ p # 0 /\ (q.to # name => ~(Position(entries, q.to) > 0))
          /\ after = [entries EXCEPT ![p] = moved]
      BY <2>1 DEF Renamed, WithName
    <2>3. p \in 1..Len(entries) /\ entries[p].name = name /\ entries[p] \in S
      BY <2>2, PositionFinds
    <2>4. moved \in S /\ moved.name = q.to
      BY <2>3
    <2>5. \A i \in 1..Len(entries) : i # p => entries[i].name # q.to
      <3>1. CASE q.to = name
        BY <2>3, <3>1 DEF Distinct
      <3>2. CASE q.to # name
        BY <2>2, <3>2, PositionFinds
      <3> QED BY <3>1, <3>2
    <2> HIDE DEF p, moved
    <2> QED BY <2>2, <2>3, <2>4, <2>5 DEF Distinct
  <1> QED BY <1>1, <1>2, <1>3

(* What is taken out of a list of members is members.                      *)
LEMMA UnassignedTyped ==
    ASSUME NEW members \in SUBSET Members, NEW q
    PROVE  Unassigned(members, q) \in (SUBSET Members) \cup {None}
  <1> DEFINE bare == [q.member EXCEPT !.server = None]
             bound == {m \in members \ {bare} : m.app = q.member.app}
  <1>1. Unassigned(members, q) \in {None, members \ {q.member}, members \ {bare}, members \ bound}
    BY DEF Unassigned
  <1> HIDE DEF bare, bound
  <1> QED BY <1>1

(* A project may be renamed, and so may a group.                           *)
LEMMA RenamedTyped ==
    ASSUME NEW name \in GroupNames
    PROVE  /\ \A e \in Project : WithName(e, name) \in Project /\ WithName(e, name).name = name
           /\ \A e \in SoundGroup : WithName(e, name) \in SoundGroup /\ WithName(e, name).name = name
  BY DEF WithName, Project, SoundGroup, AppGroup

(* The members of one project change: the names do not.                    *)
LEMMA ProjectChanges ==
    ASSUME NEW projects \in Seq(Project), Distinct(projects), NEW j \in 1..Len(projects),
           NEW members \in SUBSET Members
    PROVE  LET after == [projects EXCEPT ![j].members = members]
           IN  after \in Seq(Project) /\ Distinct(after)
  <1> DEFINE new == [projects[j] EXCEPT !.members = members]
             after == [projects EXCEPT ![j] = new]
  <1>0. projects[j] \in Project
    OBVIOUS
  <1>1. new \in Project /\ new.name = projects[j].name
    BY <1>0 DEF Project
  <1>2. after \in Seq(Project) /\ Len(after) = Len(projects)
    <2> HIDE DEF new
    <2> QED BY <1>1
  <1>3. \A i \in 1..Len(projects) : after[i].name = projects[i].name
    <2> HIDE DEF new
    <2> QED BY <1>1
  <1>4. Distinct(after)
    BY <1>2, <1>3 DEF Distinct
  <1> QED BY <1>2, <1>4

(* What a request makes of a group is that group, and its projects keep    *)
(* names of their own.                                                     *)
LEMMA GroupKeeps ==
    ASSUME NEW g \in SoundGroup, NEW q \in GroupRequests, ~OnGroups(q),
           NEW after, after = GroupChanged(q, g), after # None
    PROVE  after \in SoundGroup /\ after.name = g.name
  <1> DEFINE j == Position(g.projects, q.project)
  <1>1. /\ g \in AppGroup /\ g.members \in SUBSET Members /\ g.projects \in Seq(Project)
        /\ Distinct(g.projects) /\ q.member \in Members
    BY DEF SoundGroup, AppGroup, GroupRequests
  <1>2. j \in 0..Len(g.projects)
    BY <1>1, PositionFinds
  <1>3. \A p \in Seq(Project) : Distinct(p) =>
           [g EXCEPT !.projects = p] \in SoundGroup /\ [g EXCEPT !.projects = p].name = g.name
    BY <1>1 DEF SoundGroup, AppGroup
  <1>4. \A m \in SUBSET Members :
           [g EXCEPT !.members = m] \in SoundGroup /\ [g EXCEPT !.members = m].name = g.name
    BY <1>1 DEF SoundGroup, AppGroup
  <1>5. CASE q.op = "assign"
    <2>1. (q.project = None \/ j > 0) /\ after = Assigned(q, g)
      BY <1>5 DEF GroupChanged
    <2>2. CASE q.project = None
      <3>1. after = [g EXCEPT !.members = g.members \cup {q.member}]
        BY <2>1, <2>2 DEF Assigned
      <3>2. g.members \cup {q.member} \in SUBSET Members
        BY <1>1
      <3> QED BY <1>4, <3>1, <3>2
    <2>3. CASE q.project # None
      <3>1. j \in 1..Len(g.projects)
        BY <1>2, <2>1, <2>3
      <3> DEFINE both == g.projects[j].members \cup {q.member}
                 ps == [g.projects EXCEPT ![j].members = both]
      <3>2. both \in SUBSET Members
        <4>1. g.projects[j] \in Project
          BY <1>1, <3>1
        <4> QED BY <1>1, <4>1 DEF Project
      <3>3. ps \in Seq(Project) /\ Distinct(ps)
        <4> HIDE DEF both, j
        <4> QED BY <1>1, <3>1, <3>2, ProjectChanges
      <3>4. after = [g EXCEPT !.members = g.members \cup {q.member}, !.projects = ps]
        BY <2>1, <2>3 DEF Assigned
      <3>5. g.members \cup {q.member} \in SUBSET Members
        BY <1>1
      <3> HIDE DEF ps
      <3> QED BY <1>1, <3>3, <3>4, <3>5 DEF SoundGroup, AppGroup
    <2> QED BY <2>2, <2>3
  <1>6. CASE q.op = "unassign"
    <2>1. (q.project = None \/ j > 0) /\ after = Removed(q, g)
      BY <1>6 DEF GroupChanged
    <2> DEFINE members == IF q.project = None THEN g.members ELSE g.projects[j].members
               rest == Unassigned(members, q)
    <2>2. q.project # None => j \in 1..Len(g.projects)
      BY <1>2, <2>1
    <2>3. members \in SUBSET Members
      <3>1. q.project # None => g.projects[j] \in Project
        BY <1>1, <2>2
      <3> QED BY <1>1, <3>1 DEF Project
    <2>4. rest \in (SUBSET Members) \cup {None}
      BY <2>3, UnassignedTyped
    <2>5. after = CASE rest = None -> None
                    [] rest # None /\ q.project = None -> [g EXCEPT !.members = rest]
                    [] OTHER -> [g EXCEPT !.projects[j].members = rest]
      BY <2>1 DEF Removed
    <2> HIDE DEF rest
    <2>6. rest # None /\ rest \in SUBSET Members
      BY <2>4, <2>5
    <2>7. CASE q.project = None
      <3>1. after = [g EXCEPT !.members = rest]
        BY <2>5, <2>6, <2>7
      <3> QED BY <1>4, <2>6, <3>1
    <2>8. CASE q.project # None
      <3> DEFINE ps == [g.projects EXCEPT ![j].members = rest]
      <3>1. after = [g EXCEPT !.projects = ps]
        BY <2>5, <2>6, <2>8
      <3>2. ps \in Seq(Project) /\ Distinct(ps)
        <4>1. j \in 1..Len(g.projects)
          BY <2>2, <2>8
        <4> HIDE DEF j
        <4> QED BY <1>1, <2>6, <4>1, ProjectChanges
      <3> HIDE DEF ps
      <3> QED BY <1>3, <3>1, <3>2
    <2> QED BY <2>7, <2>8
  <1>7. CASE q.op \notin {"assign", "unassign"}
    <2> DEFINE new == [name |-> q.project, members |-> {}]
               ps == Listed(q, g.projects, q.project, new)
    <2>1. after = IF ps = None THEN None ELSE [g EXCEPT !.projects = ps]
      BY <1>7 DEF GroupChanged
    <2>2. q.project \in GroupNames /\ q.to \in GroupNames /\ q.op \in {"create", "delete", "rename"}
      BY <1>7 DEF GroupRequests, OnGroups
    <2>3. new \in Project
      BY <2>2 DEF Project
    <2>4. \A e \in Project : WithName(e, q.to) \in Project /\ WithName(e, q.to).name = q.to
      BY <2>2, RenamedTyped
    <2>5. ps # None /\ after = [g EXCEPT !.projects = ps]
      BY <2>1
    <2>6. ps \in Seq(Project) /\ Distinct(ps)
      <3>1. ps = Listed(q, g.projects, q.project, new)
        OBVIOUS
      <3> HIDE DEF new, ps
      <3> QED BY <1>1, <2>2, <2>3, <2>4, <2>5, <3>1, ListedKeeps
    <2> HIDE DEF ps
    <2> QED BY <1>3, <2>5, <2>6
  <1> QED BY <1>5, <1>6, <1>7

(* What a request makes of a document of distinct names is another one.    *)
LEMMA DocumentKeeps ==
    ASSUME NEW d \in Seq(SoundGroup), Distinct(d), NEW q \in GroupRequests,
           NEW after, after = Changed(q, d), after # None
    PROVE  after \in Seq(SoundGroup) /\ Distinct(after)
  <1> DEFINE i == Position(d, q.group)
  <1>1. q.group \in GroupNames /\ q.to \in GroupNames
    BY DEF GroupRequests
  <1>2. CASE OnGroups(q)
    <2> DEFINE new == [name |-> q.group, members |-> {}, projects |-> <<>>]
    <2>1. after = Listed(q, d, q.group, new)
      BY <1>2 DEF Changed
    <2>2. new \in SoundGroup
      <3>1. new.projects \in Seq(Project) /\ Distinct(new.projects)
        BY DEF Distinct
      <3> QED BY <1>1, <3>1 DEF SoundGroup, AppGroup
    <2>3. q.op \in {"create", "delete", "rename"}
      BY <1>2 DEF OnGroups, GroupRequests
    <2>4. \A e \in SoundGroup : WithName(e, q.to) \in SoundGroup /\ WithName(e, q.to).name = q.to
      BY <1>1, RenamedTyped
    <2> HIDE DEF new
    <2> QED BY <2>1, <2>2, <2>3, <2>4, ListedKeeps
  <1>3. CASE ~OnGroups(q)
    <2> DEFINE new == GroupChanged(q, d[i])
    <2>1. i # 0 /\ new # None /\ after = [d EXCEPT ![i] = new]
      BY <1>3 DEF Changed
    <2>2. i \in 1..Len(d)
      BY <2>1, PositionFinds
    <2>3. new \in SoundGroup /\ new.name = d[i].name
      <3>1. d[i] \in SoundGroup
        BY <2>2
      <3> HIDE DEF i
      <3> QED BY <1>3, <2>1, <3>1, GroupKeeps
    <2> HIDE DEF new, i
    <2>4. after \in Seq(SoundGroup) /\ Len(after) = Len(d)
      BY <2>1, <2>2, <2>3
    <2>5. \A j \in 1..Len(d) : after[j].name = d[j].name
      BY <2>1, <2>2, <2>3
    <2> QED BY <2>4, <2>5 DEF Distinct
  <1> QED BY <1>2, <1>3

-----------------------------------------------------------------------------
(* The file and the processes.                                             *)

LEMMA GroupStep == GroupInv /\ [GroupNext]_groupVars => GroupInv'
  <1> SUFFICES ASSUME GroupInv, [GroupNext]_groupVars PROVE GroupInv'
    OBVIOUS
  <1>1. CASE UNCHANGED groupVars
    BY <1>1 DEF groupVars, GroupInv, GroupTypeOK, WritesAddUp, LoadedIsFile
  <1>2. ASSUME NEW d \in Dashes, LoadGroups(d) PROVE GroupInv'
    BY <1>2, GroupConstants DEF LoadGroups, GroupInv, GroupTypeOK, WritesAddUp, LoadedIsFile, Distinct
  <1>3. ASSUME NEW d \in Dashes, loaded[d] # None, Unlocked(d)
        PROVE  /\ \A e \in Dashes : loaded'[e] = None
               /\ loaded' \in [Dashes -> Seq(AppGroup) \cup {None}] /\ lockedBy' \in Dashes \cup {None}
    <2>1. \A e \in Dashes : e # d => loaded[e] = None
      BY <1>3 DEF GroupInv, LoadedIsFile
    <2> QED BY <1>3, <2>1 DEF Unlocked, GroupInv, GroupTypeOK
  <1>4. ASSUME NEW d \in Dashes, SaveGroups(d) PROVE GroupInv'
    <2>1. PICK q \in GroupRequests : /\ Changed(q, loaded[d]) # None
                                     /\ groupsFile' = Changed(q, loaded[d])
                                     /\ applied' = Changed(q, applied)
      BY <1>4 DEF SaveGroups
    <2>2. loaded[d] = groupsFile /\ applied = groupsFile /\ groupsFile \in Seq(SoundGroup) /\ Distinct(groupsFile)
      BY <1>4 DEF SaveGroups, GroupInv, LoadedIsFile, WritesAddUp
    <2>3. groupsFile' \in Seq(SoundGroup) /\ Distinct(groupsFile')
      BY <2>1, <2>2, DocumentKeeps
    <2>4. applied' = groupsFile'
      BY <2>1, <2>2
    <2>5. groupsFile' \in Seq(AppGroup)
      BY <2>3 DEF SoundGroup
    <2>6. groupWrites' \in 0..MaxGroupWrites
      BY <1>4, GroupConstants DEF SaveGroups, GroupInv, GroupTypeOK
    <2> QED BY <1>3, <1>4, <2>3, <2>4, <2>5, <2>6
            DEF SaveGroups, GroupInv, GroupTypeOK, WritesAddUp, LoadedIsFile, Distinct
  <1>5. ASSUME NEW d \in Dashes, LeaveGroups(d) PROVE GroupInv'
    <2>1. UNCHANGED <<groupsFile, applied, groupWrites>> /\ loaded[d] # None /\ Unlocked(d)
      BY <1>5 DEF LeaveGroups
    <2> QED BY <1>3, <2>1 DEF GroupInv, GroupTypeOK, WritesAddUp, LoadedIsFile, Distinct
  <1> QED BY <1>1, <1>2, <1>4, <1>5 DEF GroupNext

(* What the groups and their file have in common, over all steps.          *)
LEMMA GroupInvariance == GroupSpec => []GroupInv
  <1>1. GroupInit => GroupInv
    <2> SUFFICES ASSUME GroupInit PROVE GroupInv
      OBVIOUS
    <2>1. groupsFile = << >> /\ << >> \in Seq(AppGroup) /\ << >> \in Seq(SoundGroup) /\ Len(<< >>) = 0
      BY DEF GroupInit
    <2>2. groupWrites \in 0..MaxGroupWrites
      BY GroupConstants DEF GroupInit
    <2> QED BY <2>1, <2>2 DEF GroupInit, GroupInv, GroupTypeOK, WritesAddUp, LoadedIsFile, Distinct
  <1> QED BY <1>1, GroupStep, PTL DEF GroupSpec

(* What processes that change the owner's groups leave is what their       *)
(* changes make one after the other, with one entry per name (server.go).  *)
THEOREM ChangesAddUp == GroupSpec => [](GroupTypeOK /\ WritesAddUp /\ OneEntryPerName)
  <1>1. GroupInv => GroupTypeOK /\ WritesAddUp /\ OneEntryPerName
    BY DEF GroupInv, SoundGroup, OneEntryPerName
  <1> QED BY <1>1, GroupInvariance, PTL

-----------------------------------------------------------------------------
(* The cache of what the fleet reported.                                   *)
-----------------------------------------------------------------------------

(* The cache was invalidated for no more than what has changed.            *)
SettledIsPast == \A s \in FleetServers : settled[s] <= fleet[s]

(* A refresh of the present generation has read, wherever it got an        *)
(* answer, what the cache was last invalidated for.                        *)
RefreshIsCurrent ==
    refresh # None =>
        /\ refresh.generation <= generation
        /\ refresh.generation = generation =>
              \A s \in FleetServers : refresh.got[s] # None /\ refresh.got[s].ok =>
                                          refresh.got[s].seen >= settled[s]

FleetInv == FleetTypeOK /\ SettledIsPast /\ RefreshIsCurrent /\ FreshShowsChanges

-----------------------------------------------------------------------------
(* Typing                                                                  *)

(* A sweep that probes one more server is a sweep.                         *)
LEMMA ProbedType ==
    ASSUME FleetTypeOK, NEW taken \in Sweep, NEW s \in FleetServers, NEW after \in Probed(taken, s)
    PROVE  /\ after \in Sweep /\ after.generation = taken.generation
           /\ \A t \in FleetServers : t # s => after.got[t] = taken.got[t]
           /\ after.got[s].ok => after.got[s].seen = fleet[s]
  <1>1. ASSUME NEW e \in Envelope, after = [taken EXCEPT !.got[s] = e],
               e.ok => e.seen = fleet[s]
        PROVE  /\ after \in Sweep /\ after.generation = taken.generation
               /\ \A t \in FleetServers : t # s => after.got[t] = taken.got[t]
               /\ after.got[s].ok => after.got[s].seen = fleet[s]
    BY <1>1 DEF Sweep
  <1>2. [ok |-> TRUE, seen |-> fleet[s]] \in Envelope
    BY DEF FleetTypeOK, Envelope
  <1>3. (IF taken.prev = None THEN None ELSE taken.prev[s].seen) \in 0..MaxChanges \cup {None}
    BY DEF Sweep, Envelope
  <1>4. [ok |-> FALSE, seen |-> IF taken.prev = None THEN None ELSE taken.prev[s].seen] \in Envelope
    BY <1>3 DEF Envelope
  <1> QED BY <1>1, <1>2, <1>4 DEF Probed

(* A collection begins as a sweep.                                         *)
LEMMA BeginType ==
    ASSUME FleetTypeOK, NEW prev \in {observed, None}
    PROVE  BeginCollect(prev) \in Sweep
  BY DEF FleetTypeOK, BeginCollect, Sweep, Unread

(* What a collection publishes is typed.                                   *)
LEMMA PublishedType ==
    ASSUME FleetTypeOK, NEW taken \in Sweep, Collected(taken), Published(taken)
    PROVE  /\ observed' \in [FleetServers -> Envelope]
           /\ fresh' \subseteq {"observations", "apps"} /\ lastApps' \subseteq FleetServers
  BY DEF FleetTypeOK, Sweep, Collected, Published, Answered

(* Every step of the fleet cache keeps the types.                          *)
LEMMA FleetTyping == FleetTypeOK /\ [FleetNext]_fleetVars => FleetTypeOK'
  <1> SUFFICES ASSUME FleetTypeOK, [FleetNext]_fleetVars PROVE FleetTypeOK'
    OBVIOUS
  <1>1. ASSUME NEW s \in FleetServers, ServerChanges(s) PROVE FleetTypeOK'
    BY <1>1, FleetCacheConstants DEF ServerChanges, FleetTypeOK, FleetCacheConstants
  <1>2. ASSUME NEW s \in FleetServers, Probe(s) PROVE FleetTypeOK'
    <2>1. refresh' \in Sweep \cup {None} /\ listing' \in Sweep \cup {None}
      BY <1>2, ProbedType DEF Probe, FleetTypeOK
    <2> QED BY <1>2, <2>1 DEF Probe, FleetTypeOK
  <1>3. ASSUME NEW cache \in {"observations", "apps"}, Expire(cache) PROVE FleetTypeOK'
    BY <1>3 DEF Expire, FleetTypeOK
  <1>4. CASE Invalidate
    BY <1>4, FleetCacheConstants DEF Invalidate, FleetTypeOK, FleetCacheConstants
  <1>5. CASE ReadFleet \/ ReadApps
    BY <1>5, BeginType DEF ReadFleet, ReadApps, FleetTypeOK
  <1>6. CASE ListApps
    BY <1>6, BeginType DEF ListApps, FleetTypeOK
  <1>7. CASE EndRefresh
    <2>1. refresh \in Sweep
      BY <1>7 DEF EndRefresh, Collected, FleetTypeOK
    <2> QED BY <1>7, <2>1, PublishedType DEF EndRefresh, FleetTypeOK
  <1>8. CASE AbandonRefresh
    BY <1>8 DEF AbandonRefresh, FleetTypeOK
  <1>9. CASE EndListing
    <2>1. listing \in Sweep
      BY <1>9 DEF EndListing, Collected, FleetTypeOK
    <2> QED BY <1>9, <2>1, PublishedType DEF EndListing, FleetTypeOK
  <1>10. CASE UNCHANGED fleetVars
    BY <1>10 DEF fleetVars, FleetTypeOK
  <1> QED BY <1>1, <1>2, <1>3, <1>4, <1>5, <1>6, <1>7, <1>8, <1>9, <1>10 DEF FleetNext

-----------------------------------------------------------------------------
(* The invariant                                                           *)

LEMMA FleetStep == FleetInv /\ [FleetNext]_fleetVars => FleetInv'
  <1> SUFFICES ASSUME FleetInv, [FleetNext]_fleetVars
               PROVE  SettledIsPast' /\ RefreshIsCurrent' /\ FreshShowsChanges'
    BY FleetTyping DEF FleetInv
  <1>1. ASSUME NEW s \in FleetServers, ServerChanges(s)
        PROVE  SettledIsPast' /\ RefreshIsCurrent' /\ FreshShowsChanges'
    <2>1. SettledIsPast'
      BY <1>1 DEF ServerChanges, FleetInv, FleetTypeOK, SettledIsPast
    <2> QED BY <1>1, <2>1 DEF ServerChanges, FleetInv, RefreshIsCurrent, FreshShowsChanges
  <1>2. ASSUME NEW s \in FleetServers, Probe(s)
        PROVE  SettledIsPast' /\ RefreshIsCurrent' /\ FreshShowsChanges'
    <2>1. UNCHANGED <<fleet, settled, generation, fresh, observed, shownBy>>
      BY <1>2 DEF Probe
    <2>2. SettledIsPast' /\ FreshShowsChanges'
      BY <2>1 DEF FleetInv, SettledIsPast, FreshShowsChanges
    <2>3. CASE UNCHANGED refresh
      BY <2>1, <2>2, <2>3 DEF FleetInv, RefreshIsCurrent
    <2>4. CASE refresh # None /\ refresh' \in Probed(refresh, s)
      <3>1. refresh \in Sweep
        BY <2>4 DEF FleetInv, FleetTypeOK
      <3>2. /\ refresh'.generation = refresh.generation
            /\ \A t \in FleetServers : t # s => refresh'.got[t] = refresh.got[t]
            /\ refresh'.got[s].ok => refresh'.got[s].seen = fleet[s]
        BY <2>4, <3>1, ProbedType DEF FleetInv
      <3>3. fleet[s] >= settled[s]
        BY DEF FleetInv, FleetTypeOK, SettledIsPast
      <3>4. RefreshIsCurrent'
        BY <2>1, <2>4, <3>2, <3>3 DEF FleetInv, RefreshIsCurrent
      <3> QED BY <2>2, <3>4
    <2> QED BY <1>2, <2>3, <2>4 DEF Probe
  <1>3. ASSUME NEW cache \in {"observations", "apps"}, Expire(cache)
        PROVE  SettledIsPast' /\ RefreshIsCurrent' /\ FreshShowsChanges'
    BY <1>3 DEF Expire, FleetInv, SettledIsPast, RefreshIsCurrent, FreshShowsChanges
  <1>4. CASE Invalidate
    <2>1. refresh # None => refresh.generation < generation'
      BY <1>4 DEF Invalidate, FleetInv, FleetTypeOK, RefreshIsCurrent, Sweep
    <2>2. SettledIsPast'
      BY <1>4 DEF Invalidate, FleetInv, FleetTypeOK, SettledIsPast
    <2>3. RefreshIsCurrent'
      BY <1>4, <2>1 DEF Invalidate, FleetInv, FleetTypeOK, RefreshIsCurrent, Sweep
    <2>4. FreshShowsChanges'
      BY <1>4 DEF Invalidate, FreshShowsChanges
    <2> QED BY <2>2, <2>3, <2>4
  <1>5. CASE ReadFleet \/ ReadApps
    <2>1. PICK prev : refresh' = BeginCollect(prev)
      BY <1>5 DEF ReadFleet, ReadApps
    <2>2. UNCHANGED <<fleet, settled, generation, fresh, observed, shownBy>>
      BY <1>5 DEF ReadFleet, ReadApps
    <2>3. RefreshIsCurrent'
      BY <2>1, <2>2 DEF BeginCollect, Unread, RefreshIsCurrent, FleetInv, FleetTypeOK
    <2> QED BY <2>2, <2>3 DEF FleetInv, SettledIsPast, FreshShowsChanges
  <1>6. CASE ListApps
    BY <1>6 DEF ListApps, FleetInv, SettledIsPast, RefreshIsCurrent, FreshShowsChanges
  <1>7. CASE EndRefresh
    <2>1. refresh' = None /\ UNCHANGED <<fleet, settled, generation>>
      BY <1>7 DEF EndRefresh
    <2>2. CASE refresh.generation = generation
      <3>1. observed' = refresh.got
        BY <1>7, <2>2 DEF EndRefresh, Published
      <3>2. \A s \in FleetServers : refresh.got[s].ok => refresh.got[s].seen >= settled[s]
        BY <1>7, <2>2 DEF EndRefresh, Collected, FleetInv, RefreshIsCurrent
      <3> QED BY <2>1, <3>1, <3>2 DEF FleetInv, SettledIsPast, RefreshIsCurrent, FreshShowsChanges
    <2>3. CASE refresh.generation # generation
      BY <1>7, <2>1, <2>3 DEF EndRefresh, FleetInv, SettledIsPast, RefreshIsCurrent,
            FreshShowsChanges
    <2> QED BY <2>2, <2>3
  <1>8. CASE AbandonRefresh
    BY <1>8 DEF AbandonRefresh, FleetInv, SettledIsPast, RefreshIsCurrent, FreshShowsChanges
  <1>9. CASE EndListing
    BY <1>9 DEF EndListing, FleetInv, SettledIsPast, RefreshIsCurrent, FreshShowsChanges
  <1>10. CASE UNCHANGED fleetVars
    BY <1>10 DEF fleetVars, FleetInv, SettledIsPast, RefreshIsCurrent, FreshShowsChanges
  <1> QED BY <1>1, <1>2, <1>3, <1>4, <1>5, <1>6, <1>7, <1>8, <1>9, <1>10 DEF FleetNext

(* What the cache and its sweeps have of the fleet, over all steps.        *)
LEMMA FleetInvariance == FleetSpec => []FleetInv
  <1>1. FleetInit => FleetInv
    <2> SUFFICES ASSUME FleetInit PROVE FleetInv
      OBVIOUS
    <2>1. 0 \in 0..MaxChanges
      BY FleetCacheConstants DEF FleetCacheConstants
    <2>2. FleetTypeOK
      BY <2>1 DEF FleetInit, FleetTypeOK
    <2>3. SettledIsPast
      BY DEF FleetInit, SettledIsPast
    <2>4. RefreshIsCurrent /\ FreshShowsChanges
      BY DEF FleetInit, RefreshIsCurrent, FreshShowsChanges
    <2> QED BY <2>2, <2>3, <2>4 DEF FleetInv
  <1> QED BY <1>1, FleetStep, PTL DEF FleetSpec

(* What a refresh of the pages publishes as fresh shows every change the   *)
(* cache was invalidated for, however sweeps, changes, invalidations and   *)
(* expiry fall (fleetCache.publish).                                       *)
THEOREM FreshIsCurrent == FleetSpec => []FreshShowsChanges
  <1>1. FleetInv => FreshShowsChanges
    BY DEF FleetInv
  <1> QED BY <1>1, FleetInvariance, PTL

-----------------------------------------------------------------------------
(* All services.                                                           *)
-----------------------------------------------------------------------------

(* Each of the services does what it does alone.                           *)
LEMMA EachServes ==
    ServicesSpec => /\ RestoreSpec /\ WatchSpec /\ PolicySpec /\ SetupSpec /\ DeliverySpec
                    /\ AccessSpec /\ JournalSpec /\ StreamSpec /\ TurnSpec /\ GroupSpec /\ FleetSpec
  <1>1. ServicesInit => /\ RestoreInit /\ WatchInit /\ PolicyInit /\ SetupInit /\ DeliveryInit
                        /\ AccessInit /\ JournalInit /\ StreamInit /\ TurnInit /\ GroupInit /\ FleetInit
    BY Zenon DEF ServicesInit
  <1>2. [ServicesNext]_servicesVars => [RestoreNext]_restoreVars
    BY Zenon DEF ServicesNext, servicesVars
  <1>3. [ServicesNext]_servicesVars => [WatchNext]_watchVars
    BY Zenon DEF ServicesNext, servicesVars
  <1>4. [ServicesNext]_servicesVars => [PolicyNext]_policyVars
    BY Zenon DEF ServicesNext, servicesVars
  <1>5. [ServicesNext]_servicesVars => [SetupNext]_setupVars
    BY Zenon DEF ServicesNext, servicesVars
  <1>6. [ServicesNext]_servicesVars => [DeliveryNext]_deliveryVars
    BY Zenon DEF ServicesNext, servicesVars
  <1>7. [ServicesNext]_servicesVars => [AccessNext]_accessVars
    BY Zenon DEF ServicesNext, servicesVars
  <1>8. [ServicesNext]_servicesVars => [JournalNext]_journalVars
    BY Zenon DEF ServicesNext, servicesVars
  <1>9. [ServicesNext]_servicesVars => [StreamNext]_streamVars
    BY Zenon DEF ServicesNext, servicesVars
  <1>10. [ServicesNext]_servicesVars => [TurnNext]_turnVars
    BY Zenon DEF ServicesNext, servicesVars
  <1>11. [ServicesNext]_servicesVars => [GroupNext]_groupVars
    BY Zenon DEF ServicesNext, servicesVars
  <1>12. [ServicesNext]_servicesVars => [FleetNext]_fleetVars
    BY Zenon DEF ServicesNext, servicesVars
  <1> QED BY <1>1, <1>2, <1>3, <1>4, <1>5, <1>6, <1>7, <1>8, <1>9, <1>10, <1>11, <1>12, PTL
          DEF ServicesSpec, RestoreSpec, WatchSpec, PolicySpec, SetupSpec, DeliverySpec,
              AccessSpec, JournalSpec, StreamSpec, TurnSpec, GroupSpec, FleetSpec

(* The state of every service is of the kind that its code declares.       *)
THEOREM ServicesAreTyped == ServicesSpec => []ServicesTypeOK
  <1>1. /\ RestoreInv => RestoreTypeOK
        /\ WatchInv => WatchTypeOK
        /\ PolicyInv => PolicyTypeOK
        /\ SetupInv => SetupTypeOK
        /\ DeliveryInv => DeliveryTypeOK
        /\ AccessInv => AccessTypeOK
        /\ JournalInv => JournalTypeOK
        /\ StreamInv => StreamTypeOK
        /\ TurnInv => TurnTypeOK
        /\ GroupInv => GroupTypeOK
        /\ FleetInv => FleetTypeOK
    BY Zenon DEF RestoreInv, WatchInv, PolicyInv, SetupInv, DeliveryInv, AccessInv, JournalInv,
                 StreamInv, TurnInv, GroupInv, FleetInv
  <1> QED BY <1>1, EachServes, RestoreInvariance, WatchInvariance, PolicyInvariance, SetupInvariance,
             DeliveryInvariance, AccessInvariance, JournalInvariance, StreamInvariance, TurnInvariance,
             GroupInvariance, FleetInvariance, PTL DEF ServicesTypeOK

(* What takes long runs once at a time in every behaviour of the services: *)
(* one run of a restore test, one verification of a server, one relay of a *)
(* delivery (restoretest.go, backuptests.go, gitsource.go).                *)
THEOREM FlightsAreSingle == ServicesSpec => []SingleFlight
  <1>1. WatchInv => OneVerification
    BY Zenon DEF WatchInv
  <1> QED BY <1>1, EachServes, RunsAreSingle, WatchInvariance, RelaysAreSingle, PTL DEF SingleFlight

(* Whoever follows an operation gets its whole history, or the places at   *)
(* which it has holes: from the journal by HistoryIsWhole, from the stream *)
(* by StreamIsHonest (manager.go, operations.go).                          *)
THEOREM HistoriesReach == ServicesSpec => []StreamsAreWhole
  BY EachServes, HistoryIsWhole, StreamIsHonest, PTL DEF StreamsAreWhole

(* The owner's changes of groups add up among the other services           *)
(* (server.go).                                                            *)
THEOREM ChangesAddUpEverywhere == ServicesSpec => []GroupsAddUp
  BY EachServes, ChangesAddUp, PTL DEF GroupsAddUp
=============================================================================
