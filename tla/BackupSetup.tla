----------------------------- MODULE BackupSetup -----------------------------
(***************************************************************************)
(* The storage keys of guided backup setup: minted at the provider, proved,*)
(* pushed to the servers and deleted again, one setup run at a time, with  *)
(* the by-hand form beside it, failing calls and a process that may stop   *)
(* between any two of them.  The bucket and the prefixes stay as they are, *)
(* and the setup file is always written.                                   *)
(***************************************************************************)
EXTENDS Absence, Filtering, SequencesExt

CONSTANTS
    SetupServers,   \* servers of the fleet
    StoreKeys,      \* keys the provider can mint, each once
    MaxHand         \* by-hand pushes modelled

ASSUME BackupSetupConstants ==
    {None, "by hand"} \cap StoreKeys = {} /\ None # "by hand" /\ MaxHand \in Nat

VARIABLES
    unminted,       \* keys not yet made
    alive,          \* keys the provider accepts
    held,           \* the key each server really uses
    setupRec,       \* setup.Keys
    leftovers,      \* setup.Leftovers
    setupRun,       \* handleSetupStorageApply, which holds setupMu
    hand,           \* by-hand pushes not yet recorded, and how many are left
    spent           \* keys deleted by a retirement

setupVars == <<unminted, alive, held, setupRec, leftovers, setupRun, hand, spent>>

StoreKey == StoreKeys \cup {None}
KeyRecord == [key: StoreKey, state: {"minted", "pushing", "pushed", "verified", "ambiguous"},
              replaces: Seq(StoreKeys)]
(* ready is proved; dropped is deleted, or left over, and still on record; *)
(* landed is verified with the replaced keys to go.                        *)
Stage == {"waiting", "minted", "dropped", "ready", "pushing", "landed", "done"}
SetupRun == [stage: [SetupServers -> Stage], prev: [SetupServers -> KeyRecord \cup {None}],
             key: [SetupServers -> StoreKey], configured: SUBSET SetupServers,
             first: (SUBSET SetupServers) \cup {None},
             rotate: BOOLEAN, can: BOOLEAN, refused: BOOLEAN]

ASSUME SetupRecords == None \notin KeyRecord \cup SetupRun

InSetup == setupRun # None
In(s, stages) == InSetup /\ setupRun.stage[s] \in stages
All(servers, stages) == \A s \in servers : In(s, stages)
Moved(s, stage) == [setupRun EXCEPT !.stage[s] = stage]
StageDone(s) == [setupRun EXCEPT !.stage[s] = "done", !.key[s] = None, !.prev[s] = None]
Stopping(run) == [run EXCEPT !.refused = TRUE]
RecordState(s, state) == setupRec' = [setupRec EXCEPT ![s].state = state]

(* dropKey: a key the session could not delete is left over.               *)
DropKeys(keys) ==
    \E kept \in SUBSET keys :
        /\ ~setupRun.can => kept = keys
        /\ alive' = alive \ (keys \ kept)
        /\ leftovers' = leftovers \cup kept

(* chainRecord: what is left once the newest key has gone.                 *)
ChainRecord(k) ==
    IF k.replaces = << >> THEN None
    ELSE [key |-> Last(k.replaces), state |-> "ambiguous", replaces |-> Front(k.replaces)]

Replacing(prev) ==
    IF prev = None THEN << >>
    ELSE IF prev.key = None THEN prev.replaces ELSE Append(prev.replaces, prev.key)

-----------------------------------------------------------------------------
(* handleSetupStorageApply, phase one: keys are made and proved in turn.   *)

(* A server that cannot be read counts as configured; can is whether the   *)
(* pasted key may delete keys.                                             *)
StartSetup(unread, rotate, can) ==
    /\ ~InSetup
    /\ setupRun' = [stage |-> [s \in SetupServers |-> "waiting"],
                    prev |-> [s \in SetupServers |-> None], key |-> [s \in SetupServers |-> None],
                    configured |-> unread \cup {s \in SetupServers : held[s] # None},
                    first |-> None, rotate |-> rotate, can |-> can, refused |-> FALSE]
    /\ UNCHANGED <<unminted, alive, held, setupRec, leftovers, hand, spent>>

Turn(s) == In(s, {"waiting"}) /\ All(SetupServers, {"waiting", "ready", "done"})
Finished(s) == setupRec[s] # None /\ setupRec[s].state = "verified" /\ ~setupRun.rotate

SkipServer(s) ==
    /\ Turn(s) /\ (setupRun.refused \/ Finished(s))
    /\ setupRun' = StageDone(s)
    /\ UNCHANGED <<unminted, alive, held, setupRec, leftovers, hand, spent>>

NeverPushed(s) == setupRec[s] # None /\ setupRec[s].state = "minted"

(* A key an earlier attempt never pushed goes first.                       *)
DropStale(s) ==
    /\ Turn(s) /\ ~setupRun.refused /\ NeverPushed(s)
    /\ DropKeys({setupRec[s].key} \ {None})
    /\ setupRun' = [Moved(s, "minted") EXCEPT !.prev[s] = ChainRecord(setupRec[s])]
    /\ UNCHANGED <<unminted, held, setupRec, hand, spent>>

Minting(s) == \/ In(s, {"minted"}) /\ setupRun.key[s] = None
              \/ Turn(s) /\ ~setupRun.refused /\ ~Finished(s) /\ ~NeverPushed(s)
Prior(s) == IF In(s, {"minted"}) THEN setupRun.prev[s] ELSE setupRec[s]

MintKey(s, k) ==
    /\ Minting(s) /\ k \in unminted
    /\ unminted' = unminted \ {k} /\ alive' = alive \cup {k}
    /\ setupRec' = [setupRec EXCEPT ![s] = [key |-> k, state |-> "minted", replaces |-> Replacing(Prior(s))]]
    /\ setupRun' = [Moved(s, "minted") EXCEPT !.key[s] = k, !.prev[s] = Prior(s)]
    /\ UNCHANGED <<held, leftovers, hand, spent>>

(* The record stays as it was; at the provider's cap the run stops.        *)
MintFails(s) ==
    /\ Minting(s)
    /\ setupRun' \in {StageDone(s), Stopping(StageDone(s))}
    /\ UNCHANGED <<unminted, alive, held, setupRec, leftovers, hand, spent>>

(* dropKey, then restoreSetupKey, for a key no server was given.           *)
TakeBack(s) ==
    /\ DropKeys({setupRun.key[s]})
    /\ UNCHANGED <<unminted, held, setupRec, hand, spent>>

Restore(s) ==
    /\ In(s, {"dropped"})
    /\ setupRec' = [setupRec EXCEPT ![s] = setupRun.prev[s]]
    /\ setupRun' = StageDone(s)
    /\ UNCHANGED <<unminted, alive, held, leftovers, hand, spent>>

Proving(s) == In(s, {"minted"}) /\ setupRun.key[s] # None

ProbePasses(s) ==
    /\ Proving(s)
    /\ setupRun' = Moved(s, "ready")
    /\ UNCHANGED <<unminted, alive, held, setupRec, leftovers, hand, spent>>

(* A key that works and cannot hide would be the same for every server.    *)
ProbeFails(s) ==
    /\ Proving(s) /\ TakeBack(s)
    /\ setupRun' \in {Moved(s, "dropped"), Stopping(Moved(s, "dropped"))}

-----------------------------------------------------------------------------
(* Phase two: push, verify, and retire what a key replaces.                *)

ReadyServers == {s \in SetupServers : In(s, {"ready"})}

(* Servers with no target go first; with none of those, one goes alone.    *)
BeginPushes ==
    /\ InSetup /\ setupRun.first = None /\ ~setupRun.refused
    /\ All(SetupServers, {"ready", "done"}) /\ ReadyServers # {}
    /\ setupRun' \in {[setupRun EXCEPT !.first = group] :
          group \in IF ReadyServers \subseteq setupRun.configured THEN {{s} : s \in ReadyServers}
                    ELSE {ReadyServers \ setupRun.configured}}
    /\ UNCHANGED <<unminted, alive, held, setupRec, leftovers, hand, spent>>

InFirst(s) == setupRun.first # None /\ s \in setupRun.first
FirstIsDone == IF setupRun.first = None THEN setupRun.refused /\ All(SetupServers, {"ready", "dropped", "done"})
               ELSE All(setupRun.first, {"done"})

(* A stopped run, or one whose first push the store refused, takes back    *)
(* what it has not pushed.                                                 *)
TakeBackUnpushed(s) ==
    /\ In(s, {"ready"}) /\ setupRun.refused /\ ~InFirst(s) /\ FirstIsDone
    /\ TakeBack(s)
    /\ setupRun' = Moved(s, "dropped")

(* Mutant: the push is begun before the record says so.                    *)
PushBeginsUnrecorded(s) ==
    /\ In(s, {"ready"}) /\ setupRec[s] # None
    /\ setupRun.first # None /\ (InFirst(s) \/ (FirstIsDone /\ ~setupRun.refused))
    /\ setupRun' = Moved(s, "pushing")
    /\ UNCHANGED <<unminted, alive, held, setupRec, leftovers, hand, spent>>

(* The record says so before the call.                                     *)
PushBegins(s) ==
    /\ In(s, {"ready"}) /\ setupRec[s] # None
    /\ setupRun.first # None /\ (InFirst(s) \/ (FirstIsDone /\ ~setupRun.refused))
    /\ RecordState(s, "pushing")
    /\ setupRun' = Moved(s, "pushing")
    /\ UNCHANGED <<unminted, alive, held, leftovers, hand, spent>>

PushLands(s) ==
    /\ In(s, {"pushing"}) /\ held[s] # setupRun.key[s]
    /\ held' = [held EXCEPT ![s] = setupRun.key[s]]
    /\ UNCHANGED <<unminted, alive, setupRec, leftovers, setupRun, hand, spent>>

(* Its own push verified it: Replaces is cleared and saved, then the older *)
(* keys are deleted.                                                       *)
PushVerified(s) ==
    /\ In(s, {"pushing"}) /\ held[s] = setupRun.key[s] /\ setupRec[s] # None
    /\ setupRec' = [setupRec EXCEPT ![s].state = "verified", ![s].replaces = << >>]
    /\ setupRun' = [Moved(s, "landed") EXCEPT !.prev[s] = setupRec[s]]
    /\ UNCHANGED <<unminted, alive, held, leftovers, hand, spent>>

DropReplaced(s) ==
    /\ In(s, {"landed"})
    /\ DropKeys(ToSet(setupRun.prev[s].replaces))
    /\ setupRun' = StageDone(s)
    /\ UNCHANGED <<unminted, held, setupRec, hand, spent>>

(* What ends a push that failed: in the first group a refusal by the store *)
(* stops the rest.                                                         *)
AfterPush(s, run) ==
    setupRun' \in {run} \cup (IF InFirst(s) THEN {Stopping(run)} ELSE {})

(* It landed and did not verify, or nothing is known: every key is kept.   *)
PushUnsure(s) ==
    /\ In(s, {"pushing"}) /\ setupRec[s] # None
    /\ \/ held[s] = setupRun.key[s] /\ RecordState(s, "pushed")
       \/ RecordState(s, "ambiguous")
    /\ AfterPush(s, StageDone(s))
    /\ UNCHANGED <<unminted, alive, held, leftovers, hand, spent>>

(* pushProvablyMissed: the server answered and stores something else.      *)
PushMissed(s) ==
    /\ In(s, {"pushing"}) /\ held[s] \in {None, "by hand"}
    /\ TakeBack(s)
    /\ AfterPush(s, Moved(s, "dropped"))

EndSetup ==
    /\ InSetup /\ All(SetupServers, {"done"})
    /\ setupRun' = None
    /\ UNCHANGED <<unminted, alive, held, setupRec, leftovers, hand, spent>>

-----------------------------------------------------------------------------
(* Retiring a server, the by-hand form, and the process.                   *)

(* handleSetupRetire, under setupMu, in one step: every key the server may *)
(* hold goes, and one that will not stays on the record.  The record stays *)
(* too while the removal of the data fails.                                *)
RetireKey(s) ==
    LET all == Replacing(setupRec[s]) IN
    /\ ~InSetup /\ setupRec[s] # None
    /\ held' \in {held, [held EXCEPT ![s] = None]}
    /\ \E gone \in SUBSET ToSet(all) :
          /\ alive' = alive \ gone
          /\ spent' = spent \cup gone
          /\ \/ setupRec' = [setupRec EXCEPT ![s] = [key |-> None, state |-> "ambiguous",
                                replaces |-> Filtered(all, ToSet(all) \ gone)]]
             \/ gone = ToSet(all) /\ setupRec' = [setupRec EXCEPT ![s] = None]
    /\ UNCHANGED <<unminted, leftovers, setupRun, hand>>

(* handleBackupStorage pushes a key Dash did not make, without setupMu, and*)
(* when its last push is over says where the setup's key of each went.     *)
HandPush(s) ==
    /\ hand.left > 0 /\ s \notin hand.pushed
    /\ held' = [held EXCEPT ![s] = "by hand"]
    /\ hand' = [pushed |-> hand.pushed \cup {s}, left |-> hand.left - 1]
    /\ UNCHANGED <<unminted, alive, setupRec, leftovers, setupRun, spent>>

HandRecorded ==
    LET gone == {s \in hand.pushed : setupRec[s] # None} IN
    /\ hand.pushed # {}
    /\ hand' = [hand EXCEPT !.pushed = {}]
    /\ setupRec' = [s \in SetupServers |-> IF s \in gone THEN None ELSE setupRec[s]]
    /\ leftovers' = leftovers \cup ({setupRec[s].key : s \in gone} \ {None})
    /\ UNCHANGED <<unminted, alive, held, setupRun, spent>>

(* The owner dealt with the notice.                                        *)
DismissLeftover(k) ==
    /\ k \in leftovers
    /\ leftovers' = leftovers \ {k}
    /\ UNCHANGED <<unminted, alive, held, setupRec, setupRun, hand, spent>>

(* A crash.  It is also what becomes of a run whose record the by-hand     *)
(* form deleted: pushOne writes through a nil record.                      *)
SetupRestart ==
    /\ setupRun' = None /\ hand' = [hand EXCEPT !.pushed = {}]
    /\ UNCHANGED <<unminted, alive, held, setupRec, leftovers, spent>>

-----------------------------------------------------------------------------
SetupInit ==
    /\ unminted = StoreKeys /\ alive = {} /\ leftovers = {} /\ spent = {}
    /\ held = [s \in SetupServers |-> None]
    /\ setupRec = [s \in SetupServers |-> None]
    /\ setupRun = None
    /\ hand = [pushed |-> {}, left |-> MaxHand]

SetupOf(s) ==
    \/ SkipServer(s) \/ DropStale(s) \/ MintFails(s) \/ ProbePasses(s) \/ ProbeFails(s) \/ Restore(s)
    \/ \E k \in StoreKeys : MintKey(s, k)
    \/ TakeBackUnpushed(s) \/ PushBegins(s) \/ PushLands(s) \/ PushVerified(s) \/ DropReplaced(s)
    \/ PushUnsure(s) \/ PushMissed(s)
    \/ RetireKey(s) \/ HandPush(s)

SetupNext ==
    \/ \E unread \in SUBSET SetupServers, rotate, can \in BOOLEAN : StartSetup(unread, rotate, can)
    \/ \E s \in SetupServers : SetupOf(s)
    \/ BeginPushes \/ EndSetup \/ HandRecorded \/ SetupRestart
    \/ \E k \in StoreKeys : DismissLeftover(k)

SetupSpec == SetupInit /\ [][SetupNext]_setupVars

-----------------------------------------------------------------------------
(* Properties                                                              *)

SetupTypeOK ==
    /\ unminted \subseteq StoreKeys /\ alive \subseteq StoreKeys \ unminted
    /\ held \in [SetupServers -> StoreKey \cup {"by hand"}]
    /\ setupRec \in [SetupServers -> KeyRecord \cup {None}]
    /\ leftovers \subseteq StoreKeys /\ spent \subseteq StoreKeys
    /\ setupRun \in SetupRun \cup {None}
    /\ hand \in [pushed: SUBSET SetupServers, left: 0..MaxHand]

(* Dash deletes no key a server uses, through failed probes, pushes that   *)
(* only seem to have failed, rotations and crashes, until the server is    *)
(* retired (backupsetup.go, setupServerResult: the failure rule).          *)
HeldIsAlive ==
    \A s \in SetupServers : held[s] \in StoreKeys \ spent => held[s] \in alive
=============================================================================
