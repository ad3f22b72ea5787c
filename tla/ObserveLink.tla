----------------------------- MODULE ObserveLink -----------------------------
(***************************************************************************)
(* The connection to an Observe instance and one app's telemetry opt-in    *)
(* (observe.go).  Connection and opt-ins are one record behind one lock    *)
(* and in one file.  An apply mints a key, sets the app's variables one by *)
(* one, queues a redeploy and records what it set; a disable undoes what   *)
(* is recorded.  Any call may fail, any save may fail before or after the  *)
(* file is replaced, and the process may stop between two steps.           *)
(***************************************************************************)
EXTENDS Absence

CONSTANTS
    Instances,      \* Observe instances that may answer at the address
    AppKeys         \* the environment and secret keys of an opt-in

VARIABLES
    answering,      \* the instance that answers, None before there is one
    link,           \* rec.Connection
    optIn,          \* rec.Apps: the keys recorded for the app
    appsMade,       \* rec.Apps is a map and not nil
    observeFile,    \* observe.json
    putBack,        \* the connection a failed disconnect is about to put back, if any
    applying,       \* a telemetry apply
    disabling,      \* a telemetry disable
    envSet,         \* of the keys, the ones set on the app
    wedged,         \* a panic left the lock held
    loose           \* history: keys may be set that no record names, and why is known

linkVars == <<answering, link, optIn, appsMade, observeFile, putBack, applying, disabling,
              envSet, wedged, loose>>

OptIn == (SUBSET AppKeys) \cup {None}
Apply == [fence: Instances, minted: Instances \cup {None}, set: SUBSET AppKeys]
Disable == [record: SUBSET AppKeys, left: SUBSET AppKeys, failed: SUBSET AppKeys]

ASSUME LinkRecords ==
    /\ None \notin Apply \cup Disable
    /\ \A apps \in SUBSET AppKeys : apps # None

Named(record) == IF record = None THEN {} ELSE record

(* saveLocked *)
Save == observeFile' = [link |-> link', optIn |-> optIn']
SaveOrNot == observeFile' \in {observeFile, [link |-> link', optIn |-> optIn']}

(* What is set without a record is made good when the last of the calls    *)
(* ends with a record of all that is set.                                  *)
Settled(other) == loose' = (loose /\ (other # None \/ ~(envSet' \subseteq Named(optIn'))))

-----------------------------------------------------------------------------
(* The connection.                                                         *)

LinkOnly == UNCHANGED <<answering, optIn, appsMade, applying, disabling, envSet, wedged, loose>>

(* handleObserveConnect: the owner confirmed the instance that answers.  A *)
(* failed save drops the connection there was.                             *)
Connect ==
    /\ ~wedged /\ answering # None /\ LinkOnly /\ UNCHANGED putBack
    /\ \/ link' = answering /\ Save
       \/ link' = None
          /\ observeFile' \in {observeFile, [link |-> answering, optIn |-> optIn]}

(* handleObserveDisconnect; a failed save puts the connection back in a    *)
(* second critical section (one at a time here).                           *)
Disconnect ==
    /\ ~wedged /\ LinkOnly /\ link' = None
    /\ \/ Save /\ UNCHANGED putBack
       \/ putBack = {} /\ SaveOrNot /\ putBack' = {link}

PutBack(connection) ==
    /\ ~wedged /\ connection \in putBack
    /\ link' = connection /\ putBack' = {}
    /\ LinkOnly /\ UNCHANGED observeFile

ObserveMoves(instance) ==
    /\ answering # instance
    /\ answering' = instance
    /\ UNCHANGED <<link, optIn, appsMade, observeFile, putBack, applying, disabling, envSet,
                   wedged, loose>>

-----------------------------------------------------------------------------
(* handleObserveTelemetryApply                                             *)

ApplyOnly == UNCHANGED <<answering, link, putBack, disabling>>
RecordKept == UNCHANGED <<optIn, appsMade, observeFile, wedged>>

(* The fence: the connected instance still answers (observeDocStillCurrent). *)
BeginApply ==
    /\ ~wedged /\ applying = None
    /\ link # None /\ link = answering
    /\ applying' = [fence |-> link, minted |-> None, set |-> {}]
    /\ loose' = (loose \/ disabling # None)
    /\ UNCHANGED envSet /\ ApplyOnly /\ RecordKept

(* observeEnsureSite and observeMintKey, at whoever answers now.           *)
Mint ==
    /\ applying # None /\ applying.minted = None
    /\ applying' \in {[applying EXCEPT !.minted = answering], None}
    /\ UNCHANGED <<envSet, loose>> /\ ApplyOnly /\ RecordKept

Setting(key) == applying # None /\ applying.minted # None /\ key \notin applying.set

SetKey(key) ==
    /\ Setting(key)
    /\ envSet' = envSet \cup {key}
    /\ applying' = [applying EXCEPT !.set = @ \cup {key}]
    /\ UNCHANGED loose /\ ApplyOnly /\ RecordKept

(* observePartialFailure: what is written stands and nothing is recorded.  *)
SetFails(key) ==
    /\ Setting(key)
    /\ envSet' \in {envSet, envSet \cup {key}}
    /\ applying' = None /\ loose' = TRUE
    /\ ApplyOnly /\ RecordKept

AllSet == applying # None /\ applying.set = AppKeys

(* Mutant: an apply records only the keys that were not recorded before.   *)
RecordNew ==
    /\ AllSet /\ ~wedged
    /\ optIn' = AppKeys \ Named(optIn) /\ appsMade' = TRUE /\ applying' = None
    /\ UNCHANGED <<link, envSet, wedged>> /\ SaveOrNot /\ Settled(disabling)
    /\ UNCHANGED <<answering, putBack, disabling>>

(* The redeploy is queued and the opt-in recorded.                         *)
RecordOptIn ==
    /\ AllSet /\ ~wedged
    /\ optIn' = AppKeys /\ appsMade' = TRUE /\ applying' = None
    /\ UNCHANGED <<link, envSet, wedged>> /\ SaveOrNot /\ Settled(disabling)
    /\ UNCHANGED <<answering, putBack, disabling>>

(* The redeploy cannot be queued: what is set is recorded all the same,    *)
(* into a map nobody made when this is the first opt-in since the file was *)
(* read.  That assignment panics, and the lock is not released.            *)
RecordUnqueued ==
    /\ AllSet /\ ~wedged
    /\ applying' = None /\ UNCHANGED <<answering, link, putBack, disabling, appsMade, envSet>>
    /\ IF appsMade
       THEN optIn' = AppKeys /\ SaveOrNot /\ Settled(disabling) /\ UNCHANGED wedged
       ELSE wedged' = TRUE /\ loose' = TRUE /\ UNCHANGED <<optIn, observeFile>>

-----------------------------------------------------------------------------
(* handleObserveTelemetryDisable: the record leaves memory, not the file,  *)
(* before the keys go.                                                     *)

BeginDisable ==
    /\ ~wedged /\ disabling = None /\ optIn # None
    /\ disabling' = [record |-> optIn, left |-> optIn, failed |-> {}]
    /\ optIn' = None
    /\ loose' = (loose \/ applying # None)
    /\ UNCHANGED <<answering, link, appsMade, observeFile, putBack, applying, envSet, wedged>>

Unset(key) ==
    /\ disabling # None /\ key \in disabling.left
    /\ \/ envSet' = envSet \ {key} /\ disabling' = [disabling EXCEPT !.left = @ \ {key}]
       \/ envSet' \in {envSet, envSet \ {key}}
          /\ disabling' = [disabling EXCEPT !.left = @ \ {key}, !.failed = @ \cup {key}]
    /\ UNCHANGED <<answering, link, optIn, appsMade, observeFile, putBack, applying, wedged, loose>>

(* What is still set is recorded again; so is everything when the redeploy *)
(* cannot be queued.                                                       *)
EndDisable ==
    /\ disabling # None /\ disabling.left = {} /\ ~wedged
    /\ disabling' = None
    /\ IF disabling.failed # {} THEN optIn' = disabling.failed
       ELSE optIn' \in {optIn, disabling.record}
    /\ UNCHANGED <<link, envSet>> /\ SaveOrNot /\ Settled(applying)
    /\ UNCHANGED <<answering, appsMade, putBack, applying, wedged>>

-----------------------------------------------------------------------------
(* load.  A record that is not the last one saved, or an apply cut off,    *)
(* leaves keys set without a record; a disable that was cut off does not.  *)
LinkRestart ==
    LET last == IF disabling # None THEN disabling.record ELSE optIn
    IN /\ link' = observeFile.link /\ optIn' = observeFile.optIn
       /\ appsMade' = (observeFile.optIn # None)
       /\ putBack' = {} /\ applying' = None /\ disabling' = None /\ wedged' = FALSE
       /\ loose' = (loose \/ applying # None \/ observeFile.optIn # last)
       /\ UNCHANGED <<answering, observeFile, envSet>>

-----------------------------------------------------------------------------
LinkInit ==
    /\ answering = None /\ link = None /\ optIn = None /\ appsMade = FALSE
    /\ observeFile = [link |-> None, optIn |-> None] /\ putBack = {}
    /\ applying = None /\ disabling = None /\ envSet = {} /\ wedged = FALSE /\ loose = FALSE

LinkNext ==
    \/ Connect \/ Disconnect \/ BeginApply \/ Mint
    \/ RecordOptIn \/ RecordUnqueued \/ BeginDisable \/ EndDisable \/ LinkRestart
    \/ \E connection \in Instances \cup {None} : PutBack(connection)
    \/ \E instance \in Instances : ObserveMoves(instance)
    \/ \E key \in AppKeys : SetKey(key) \/ SetFails(key) \/ Unset(key)

LinkSpec == LinkInit /\ [][LinkNext]_linkVars

-----------------------------------------------------------------------------
(* Properties                                                              *)

LinkTypeOK ==
    /\ {answering, link} \subseteq Instances \cup {None} /\ optIn \in OptIn
    /\ observeFile \in [link: Instances \cup {None}, optIn: OptIn]
    /\ putBack \subseteq Instances \cup {None} /\ envSet \subseteq AppKeys
    /\ {appsMade, wedged, loose} \subseteq BOOLEAN
    /\ applying \in Apply \cup {None} /\ disabling \in Disable \cup {None}

(* A disable can undo what Dash set on an app ("undoes exactly what the    *)
(* opt-in recorded", handleObserveTelemetryDisable): between calls, every  *)
(* key that is set is in the record, over failing calls, a disable the     *)
(* process did not survive and one whose redeploy could not be queued.     *)
(* The exceptions are the ones loose names: an apply that failed part-way  *)
(* or was cut off, calls that overlapped, and a record whose save failed.  *)
SetIsRecorded ==
    applying = None /\ disabling = None /\ ~loose => envSet \subseteq Named(optIn)

(* No request leaves the lock held.  It fails (RecordUnqueued).            *)
LockIsReleased == ~wedged

(* "Credentials never land against an Observe that moved"                  *)
(* (observeDocStillCurrent).  It fails: the fence is read once, before the *)
(* site and the key are asked for.                                         *)
MintedWhereFenced == applying # None => applying.minted \in {None, applying.fence}
=============================================================================
