---------------------------- MODULE BackupPolicy ----------------------------
(***************************************************************************)
(* The recovery key, the policy and the excludes: what the owner's         *)
(* requests write to the servers through the CLI, one server at a time,    *)
(* and what Dash records of it.  The host of Dash itself holds volumes     *)
(* with Dash's SSH key, which may leave it only encrypted; whether a       *)
(* server is that host Dash can only ask, and may not learn.  One action   *)
(* per CLI call and per section under backups.mu.                          *)
(***************************************************************************)
EXTENDS Absence, FiniteSets

CONSTANTS
    Hosts,          \* servers of the fleet
    SelfHost,       \* the one Dash runs on, which selfHostOn may recognise
    RecoveryKeys,   \* public keys, each generated once
    Owners          \* requests that may be under way together

ASSUME BackupPolicyConstants == SelfHost \in Hosts /\ None \notin RecoveryKeys

VARIABLES
    policy,         \* what each server's CLI holds
    newest,         \* recipient of a server's newest backup since the key was set
    recovery,       \* backups.rec.Recovery
    pendingKey,     \* backups.pendingKey
    selfExcluded,   \* servers with a SelfExcluded list
    owner,          \* handlers of the owner's requests
    unproved        \* history: servers where Dash's volumes came in, or were left
                    \* in, because selfHostOn did not recognise the host

policyVars == <<policy, newest, recovery, pendingKey, selfExcluded, owner, unproved>>

Key == RecoveryKeys \cup {None}
(* out: Dash's own volumes are on the exclude list.                        *)
Policy == [to: Key, volumes: BOOLEAN, out: BOOLEAN]
(* The drill objects offered, by recipient; opened is the one the owner    *)
(* decrypted and whole that every server took the key at the first try,    *)
(* both of which the code does not keep.                                   *)
Recovery == [key: RecoveryKeys, drill: Key, previous: Key, opened: Key, whole: BOOLEAN]
(* Taking Dash's volumes back in asks selfHostOn, unless there is a key:   *)
(* include is let through as if recognised, include unproved otherwise.    *)
ExcludeOps == {"exclude", "include", "include unproved", "other"}
PolicyRequest == [op: {"confirm", "policy"} \cup ExcludeOps, key: Key, volumes: BOOLEAN,
            seen: [Hosts -> Policy \cup {None}], left: SUBSET Hosts, failed: BOOLEAN]

ASSUME PolicyRecords == None \notin Policy \cup Recovery \cup PolicyRequest

Blind == [h \in Hosts |-> None]
NoOwner(w) == owner[w] = None
PolicyKept == UNCHANGED <<policy, newest, selfExcluded, unproved>>

-----------------------------------------------------------------------------
(* The recovery key.                                                       *)

(* handleBackupKeyGenerate keeps the public half until it is confirmed.    *)
GenerateKey(k) ==
    /\ k # pendingKey /\ \A h \in Hosts : policy[h].to # k
    /\ recovery # None => recovery.key # k
    /\ \A w \in Owners : ~NoOwner(w) => owner[w].key # k
    /\ pendingKey' = k
    /\ PolicyKept /\ UNCHANGED <<recovery, owner>>

(* handleBackupKeyConfirm: only the key just generated.                    *)
ConfirmKey(w) ==
    /\ NoOwner(w) /\ pendingKey # None
    /\ owner' = [owner EXCEPT ![w] = [op |-> "confirm", key |-> pendingKey, volumes |-> FALSE,
                                      seen |-> Blind, left |-> Hosts, failed |-> FALSE]]
    /\ PolicyKept /\ UNCHANGED <<recovery, pendingKey>>

(* The answer counts even when a server did not take the key; a new key    *)
(* starts a record of its own, the pending one is kept for a retry, and a  *)
(* retry leaves the record alone.                                          *)
KeyConfirmed(w) ==
    LET r == owner[w] IN
    /\ ~NoOwner(w) /\ r.op = "confirm" /\ r.left = {}
    /\ pendingKey' = IF r.failed THEN pendingKey ELSE None
    /\ IF recovery = None \/ recovery.key # r.key
       THEN /\ recovery' = [key |-> r.key, drill |-> None, previous |-> None, opened |-> None,
                            whole |-> ~r.failed]
            /\ newest' = Blind
       ELSE UNCHANGED <<recovery, newest>>
    /\ owner' = [owner EXCEPT ![w] = None]
    /\ UNCHANGED <<policy, selfExcluded, unproved>>

(* recoveryViewLocked offers the newest object made since the key was set, *)
(* a fresh one daily, and the one before stays good (pickDrillObject).     *)
OfferDrill(h) ==
    /\ recovery # None /\ recovery.opened = None /\ newest[h] # None
    /\ recovery' = [recovery EXCEPT !.drill = newest[h], !.previous = recovery.drill]
    /\ PolicyKept /\ UNCHANGED <<pendingKey, owner>>

(* handleSetupProofStart reads the newest object though one was opened.    *)
StartProof(h) ==
    /\ recovery # None /\ newest[h] # None
    /\ recovery' = [recovery EXCEPT !.drill = newest[h], !.previous = recovery.drill]
    /\ PolicyKept /\ UNCHANGED <<pendingKey, owner>>

(* handleBackupDrill: the pasted output names an object that was offered.  *)
PassDrill ==
    /\ recovery # None
    /\ \E o \in {recovery.drill, recovery.previous} \ {None} :
          recovery' = [recovery EXCEPT !.opened = o]
    /\ PolicyKept /\ UNCHANGED <<pendingKey, owner>>

(* handleSetupProofResult: the browser opened the part it was given of one *)
(* of the two, whichever was offered meanwhile.                            *)
PassProof ==
    /\ recovery # None
    /\ \E o \in {recovery.drill, recovery.previous} \ {None} :
          recovery' = [recovery EXCEPT !.opened = o]
    /\ PolicyKept /\ UNCHANGED <<pendingKey, owner>>

-----------------------------------------------------------------------------
(* The policy and the excludes.                                            *)

(* handleBackupPolicy takes the recovery key before it writes anything.    *)
ApplyPolicy(w, volumes) ==
    /\ NoOwner(w)
    /\ owner' = [owner EXCEPT ![w] =
         [op |-> "policy", key |-> IF recovery = None THEN None ELSE recovery.key, volumes |-> volumes,
          seen |-> Blind, left |-> Hosts, failed |-> FALSE]]
    /\ PolicyKept /\ UNCHANGED <<recovery, pendingKey>>

PolicyApplied(w) ==
    /\ ~NoOwner(w) /\ owner[w].op = "policy" /\ owner[w].left = {}
    /\ owner' = [owner EXCEPT ![w] = None]
    /\ PolicyKept /\ UNCHANGED <<recovery, pendingKey>>

(* handleBackupExclude for Dash's own volumes or for any other name.  To   *)
(* take Dash's volumes back in without a recovery key is refused on the    *)
(* host that selfHostOn recognises; any other answer lets it through.      *)
Exclude(w, op) ==
    /\ NoOwner(w)
    /\ op = "include" => recovery # None
    /\ op = "include unproved" => recovery = None
    /\ owner' = [owner EXCEPT ![w] = [op |-> op, key |-> None, volumes |-> FALSE,
                                      seen |-> Blind, left |-> {SelfHost}, failed |-> FALSE]]
    /\ PolicyKept /\ UNCHANGED <<recovery, pendingKey>>

Excluded(w) ==
    /\ ~NoOwner(w) /\ owner[w].op \in ExcludeOps /\ owner[w].left = {}
    /\ owner' = [owner EXCEPT ![w] = None]
    /\ PolicyKept /\ UNCHANGED <<recovery, pendingKey>>

(* readBackupPolicyShow.  A failing read ends the server's turn, but a     *)
(* confirmation only goes on without touching the excludes.                *)
ReadPolicy(w, h) ==
    LET r == owner[w] IN
    /\ ~NoOwner(w) /\ h \in r.left /\ r.seen[h] = None
    /\ \/ owner' = [owner EXCEPT ![w].seen[h] = policy[h]]
       \/ r.op # "confirm" /\ owner' = [owner EXCEPT ![w].left = @ \ {h}, ![w].failed = TRUE]
    /\ PolicyKept /\ UNCHANGED <<recovery, pendingKey>>

(* applyBackupPolicy: nothing would encrypt the volumes that are asked for.*)
Plain(r, p) == r.op = "policy" /\ r.volumes /\ r.key = None /\ p.to = None

(* Mutant: what Dash once excluded is taken to be excluded still.          *)
AddsWhereRemembered(r, p, h, known) == Plain(r, p) /\ known /\ ~p.out /\ h \notin selfExcluded

(* Dash adds its exclude where it is missing, on a server it recognises as *)
(* its host, and takes back what it added.  Elsewhere it writes what was   *)
(* asked for, with a warning at most.                                      *)
Adds(r, p, h, known) == Plain(r, p) /\ known /\ ~p.out
TakesBack(r, p, h) == /\ h \in selfExcluded
                      /\ \/ r.op = "confirm" /\ p # None
                         \/ r.op = "policy" /\ ~Plain(r, p)

(* The fields one backup-policy set names; it leaves the others alone.     *)
PolicyWritten(r, h, known) ==
    LET p == r.seen[h] IN
    [to |-> IF r.op \in {"confirm", "policy"} /\ r.key # None THEN r.key ELSE policy[h].to,
     volumes |-> IF r.op = "policy" THEN r.volumes ELSE policy[h].volumes,
     out |-> CASE r.op = "exclude" \/ Adds(r, p, h, known) -> TRUE
               [] r.op \in {"include", "include unproved"} \/ TakesBack(r, p, h) -> FALSE
               [] r.op = "other" -> p.out
               [] OTHER -> policy[h].out]

(* The server stores the policy.  From then on Dash's volumes are there    *)
(* unproved if they are not on its list and the host was not recognised.   *)
Stores(r, h, known) ==
    /\ policy' = [policy EXCEPT ![h] = PolicyWritten(r, h, known)]
    /\ unproved' = IF PolicyWritten(r, h, known).out THEN unproved \ {h}
                   ELSE IF r.op = "include unproved" \/ (Plain(r, r.seen[h]) /\ ~known)
                   THEN unproved \cup {h}
                   ELSE unproved

(* selfHostOn is taken to say yes on no other server.  On its own host it  *)
(* may as well say unknown (no TEPLOY_APP, no siblings feature, a failing  *)
(* check, a missing row) or, when TEPLOY_APP is not set, absent.  The set  *)
(* may fail before or after the server stored it; what Dash added or took  *)
(* back is remembered only after a success.                                *)
SetPolicy(w, h) ==
    LET r == owner[w] IN
    /\ ~NoOwner(w) /\ h \in r.left
    /\ r.seen[h] # None \/ r.op = "confirm"
    /\ \E known \in {h = SelfHost, FALSE} :
       \/ /\ Stores(r, h, known)
          /\ selfExcluded' = IF Adds(r, r.seen[h], h, known) THEN selfExcluded \cup {h}
                             ELSE IF TakesBack(r, r.seen[h], h) THEN selfExcluded \ {h}
                             ELSE selfExcluded
          /\ owner' = [owner EXCEPT ![w].left = @ \ {h}]
       \/ /\ \/ Stores(r, h, known)
             \/ UNCHANGED <<policy, unproved>>
          /\ owner' = [owner EXCEPT ![w].left = @ \ {h}, ![w].failed = TRUE]
          /\ UNCHANGED selfExcluded
    /\ UNCHANGED <<newest, recovery, pendingKey>>

(* A run of the server's policy.                                           *)
PolicyRuns(h) ==
    /\ recovery # None
    /\ newest' = [newest EXCEPT ![h] = policy[h].to]
    /\ UNCHANGED <<policy, recovery, pendingKey, selfExcluded, owner, unproved>>

(* The process ends: a confirmation or a policy stays where it had come to,*)
(* and the pending key is gone (initBackups).                              *)
PolicyRestart ==
    /\ owner' = [w \in Owners |-> None] /\ pendingKey' = None
    /\ PolicyKept /\ UNCHANGED recovery

-----------------------------------------------------------------------------
PolicyInit ==
    /\ policy = [h \in Hosts |-> [to |-> None, volumes |-> FALSE, out |-> FALSE]]
    /\ newest = Blind
    /\ recovery = None
    /\ pendingKey = None
    /\ selfExcluded = {}
    /\ owner = [w \in Owners |-> None]
    /\ unproved = {}

OwnerStep(w) ==
    \/ ConfirmKey(w) \/ KeyConfirmed(w) \/ PolicyApplied(w) \/ Excluded(w)
    \/ \E v \in BOOLEAN : ApplyPolicy(w, v)
    \/ \E op \in ExcludeOps : Exclude(w, op)
    \/ \E h \in Hosts : ReadPolicy(w, h) \/ SetPolicy(w, h)

PolicyNext ==
    \/ \E k \in RecoveryKeys : GenerateKey(k)
    \/ \E w \in Owners : OwnerStep(w)
    \/ \E h \in Hosts : OfferDrill(h) \/ StartProof(h) \/ PolicyRuns(h)
    \/ PassDrill \/ PassProof \/ PolicyRestart

PolicySpec == PolicyInit /\ [][PolicyNext]_policyVars

-----------------------------------------------------------------------------
(* Properties                                                              *)

PolicyTypeOK ==
    /\ policy \in [Hosts -> Policy]
    /\ newest \in [Hosts -> Key]
    /\ recovery \in Recovery \cup {None}
    /\ pendingKey \in Key
    /\ selfExcluded \subseteq Hosts /\ unproved \subseteq Hosts
    /\ owner \in [Owners -> PolicyRequest \cup {None}]

(* Before there is a recovery key, no policy backs up the volumes that     *)
(* hold Dash's SSH key, whatever failed on the way: the CLI would upload   *)
(* them in plain text.  They come in only by a write for which selfHostOn  *)
(* was asked and did not recognise the host, and stay in only until a      *)
(* write for which it did (applyBackupPolicy, handleBackupExclude).        *)
PlainVolumesStayOut ==
    recovery = None /\ policy[SelfHost].to = None /\ policy[SelfHost].volumes =>
        policy[SelfHost].out \/ SelfHost \in unproved

NoRotation == \A w \in Owners : ~NoOwner(w) => owner[w].op # "confirm"

(* A passed drill opened an object of the key the page names, if every     *)
(* server took that key at the first try and none is taking another        *)
(* (pickDrillObject: the drill proves this key).                           *)
DrillProvesKey ==
    recovery # None /\ recovery.opened # None /\ recovery.whole /\ NoRotation =>
        recovery.opened = recovery.key

(* The same once every server holds the key, however many tries it took.   *)
DrillProvesHeldKey ==
    recovery # None /\ recovery.opened # None /\ NoRotation
      /\ (\A h \in Hosts : policy[h].to = recovery.key) =>
        recovery.opened = recovery.key
=============================================================================
