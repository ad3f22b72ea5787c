--------------------------- MODULE SourceDeliveries ---------------------------
(***************************************************************************)
(* One Git source and the webhook deliveries its forge makes: the secret   *)
(* they are signed with, the durable ledger and the seen index, the relay  *)
(* that wakes the connected app after the forge has its answer, and the    *)
(* routing hint.  Requests that change the source and deliveries hold      *)
(* sourceActionMu; the relay's goroutines do not.                          *)
(***************************************************************************)
EXTENDS Absence, Integers, FiniteSets

CONSTANTS
    Deliveries,     \* delivery ids of the forge
    Hooks,          \* deliveries being served at the same time
    Relays,         \* relay goroutines alive at the same time
    MaxSecret       \* bound: secrets the source ever has

VARIABLES
    secret,         \* webhook-secret of the source, 0 when there is no source
    secrets,        \* secrets drawn so far
    degraded,       \* the source's credential failed its verification
    ledger,         \* delivery ids in deliveries.jsonl
    seen,           \* Store.seen
    hook,           \* handleSourceWebhook
    inFlight,       \* relayInFlight
    relay,          \* goroutines of relayVerifiedPush
    route,          \* the routing hint of the source's app
    told,           \* history: deliveries this process answered with a 200
    lost            \* history: deliveries whose record failed after it, or whose
                    \* source was deleted during their relay

deliveryVars == <<secret, secrets, degraded, ledger, seen, hook, inFlight, relay, route, told, lost>>

Hook == [d: Deliveries, secret: 1..MaxSecret, pc: {"waiting", "seen", "verify", "relay"}]
Relay == [d: Deliveries, pc: {"poll", "release"}]

ASSUME DeliveryConstants == MaxSecret \in Nat /\ None \notin Hook \cup Relay

Locked == \E k \in Hooks : hook[k] # None /\ hook[k].pc # "waiting"
Serving(k, pc) == hook[k] # None /\ hook[k].pc = pc
HookGoesOn(k, pc) == hook' = [hook EXCEPT ![k].pc = pc]
HookEnds(k) == hook' = [hook EXCEPT ![k] = None]
SourceKept == UNCHANGED <<secret, secrets, degraded>>

-----------------------------------------------------------------------------
(* The source.                                                             *)

FreshSecret == secrets < MaxSecret /\ secrets' = secrets + 1 /\ secret' = secrets + 1

CreateSource ==
    /\ secret = 0 /\ FreshSecret
    /\ degraded' = FALSE
    /\ UNCHANGED <<ledger, seen, hook, inFlight, relay, route, told, lost>>

RotateWebhookSecret ==
    /\ secret # 0 /\ ~Locked /\ FreshSecret
    /\ UNCHANGED <<degraded, ledger, seen, hook, inFlight, relay, route, told, lost>>

(* handleSourceVerify records the verdict on the credential.               *)
MarkCredentialState ==
    /\ secret # 0 /\ ~Locked
    /\ degraded' = ~degraded
    /\ UNCHANGED <<secret, secrets, ledger, seen, hook, inFlight, relay, route, told, lost>>

(* Delete takes the ledger and the index with it.  A source made again for *)
(* the same repository has the same id.                                    *)
DeleteSource ==
    /\ secret # 0 /\ ~Locked
    /\ secret' = 0
    /\ degraded' = FALSE
    /\ ledger' = {} /\ seen' = {} /\ told' = {}
    /\ lost' = lost \cup inFlight
    /\ UNCHANGED <<secrets, hook, inFlight, relay, route>>

(* Routing.Link and Unlink.                                                *)
RouteChanges ==
    /\ route' = ~route
    /\ SourceKept /\ UNCHANGED <<ledger, seen, hook, inFlight, relay, told, lost>>

-----------------------------------------------------------------------------
(* A delivery.  It is authenticated before the lock and again under it.    *)

DeliveryArrives(k, d) ==
    /\ secret # 0 /\ hook[k] = None
    /\ hook' = [hook EXCEPT ![k] = [d |-> d, secret |-> secret, pc |-> "waiting"]]
    /\ SourceKept /\ UNCHANGED <<ledger, seen, inFlight, relay, route, told, lost>>

AuthenticateAgain(k) ==
    /\ Serving(k, "waiting") /\ ~Locked
    /\ IF hook[k].secret = secret THEN HookGoesOn(k, "seen") ELSE HookEnds(k)
    /\ SourceKept /\ UNCHANGED <<ledger, seen, inFlight, relay, route, told, lost>>

Answer(d) == told' = told \cup {d}

(* RecordDelivery.                                                         *)
Keep(d) == ledger' = ledger \cup {d} /\ seen' = seen \cup {d}

(* Mutant: the forge is answered whether or not the record was written.    *)
AnswerFirst(k) ==
    /\ Keep(hook[k].d) \/ UNCHANGED <<ledger, seen>>
    /\ Answer(hook[k].d)
    /\ HookEnds(k)
    /\ UNCHANGED <<inFlight, relay>>

(* Ignored and degraded deliveries are recorded first and answered then; a *)
(* failed record is an error the forge retries.                            *)
RecordIgnored(k) ==
    /\ \/ Keep(hook[k].d) /\ Answer(hook[k].d)
       \/ UNCHANGED <<ledger, seen, told>>
    /\ HookEnds(k)
    /\ UNCHANGED <<inFlight, relay>>

CheckSeen(k) ==
    /\ Serving(k, "seen")
    /\ IF hook[k].d \in seen
       THEN HookEnds(k) /\ Answer(hook[k].d) /\ UNCHANGED <<ledger, seen, inFlight, relay>>
       ELSE \/ RecordIgnored(k)   \* not a push of a watched branch, or degraded
            \/ ~degraded /\ HookGoesOn(k, "verify")
                         /\ UNCHANGED <<ledger, seen, inFlight, relay, told>>
    /\ SourceKept /\ UNCHANGED <<route, lost>>

(* PushHead asks the forge: authoritative, not any more, or no answer, and *)
(* then nothing is recorded and the forge tries again.                     *)
VerifyPush(k) ==
    /\ Serving(k, "verify")
    /\ \/ HookGoesOn(k, "relay") /\ UNCHANGED <<ledger, seen, inFlight, relay, told>>
       \/ RecordIgnored(k)
       \/ HookEnds(k) /\ UNCHANGED <<ledger, seen, inFlight, relay, told>>
    /\ SourceKept /\ UNCHANGED <<route, lost>>

(* Mutant: a delivery that is being relayed is relayed again.              *)
RelayUnclaimed(d) == FALSE

RelayClaimed(d) == d \in inFlight

(* relayVerifiedPush: the forge is answered as soon as the relay is        *)
(* claimed.                                                                *)
StartRelay(k, g) ==
    LET d == hook[k].d IN
    /\ Serving(k, "relay")
    /\ CASE ~route -> RecordIgnored(k)
         [] route /\ RelayClaimed(d) ->
              HookEnds(k) /\ Answer(d) /\ UNCHANGED <<ledger, seen, inFlight, relay>>
         [] OTHER -> /\ relay[g] = None
                     /\ relay' = [relay EXCEPT ![g] = [d |-> d, pc |-> "poll"]]
                     /\ inFlight' = inFlight \cup {d}
                     /\ HookEnds(k) /\ Answer(d)
                     /\ UNCHANGED <<ledger, seen>>
    /\ SourceKept /\ UNCHANGED <<route, lost>>

(* relayOneRoute polls the app, or drops a stale hint; the result goes to  *)
(* the ledger, which fails when the source is gone.                        *)
RelayRecords(g) ==
    LET d == relay[g].d IN
    /\ relay[g] # None /\ relay[g].pc = "poll"
    /\ \/ secret # 0 /\ Keep(d) /\ UNCHANGED lost
       \/ lost' = lost \cup {d} /\ UNCHANGED <<ledger, seen>>
    /\ route' \in {route, FALSE}
    /\ relay' = [relay EXCEPT ![g].pc = "release"]
    /\ SourceKept /\ UNCHANGED <<hook, inFlight, told>>

RelayReleases(g) ==
    /\ relay[g] # None /\ relay[g].pc = "release"
    /\ inFlight' = inFlight \ {relay[g].d}
    /\ relay' = [relay EXCEPT ![g] = None]
    /\ SourceKept /\ UNCHANGED <<ledger, seen, hook, route, told, lost>>

(* The index is read back from the ledger; relays die with the process and *)
(* the server's own timer catches their pushes up.                         *)
SourcesRestart ==
    /\ seen' = ledger
    /\ hook' = [k \in Hooks |-> None]
    /\ inFlight' = {}
    /\ relay' = [g \in Relays |-> None]
    /\ told' = {} /\ lost' = {}
    /\ SourceKept /\ UNCHANGED <<ledger, route>>

-----------------------------------------------------------------------------
DeliveryInit ==
    /\ secret = 0 /\ secrets = 0
    /\ degraded = FALSE
    /\ ledger = {} /\ seen = {}
    /\ hook = [k \in Hooks |-> None]
    /\ inFlight = {}
    /\ relay = [g \in Relays |-> None]
    /\ route = FALSE
    /\ told = {} /\ lost = {}

HookStep(k) == \/ AuthenticateAgain(k) \/ CheckSeen(k) \/ VerifyPush(k)
               \/ \E g \in Relays : StartRelay(k, g)
               \/ \E d \in Deliveries : DeliveryArrives(k, d)

DeliveryNext ==
    \/ CreateSource \/ RotateWebhookSecret \/ MarkCredentialState \/ DeleteSource \/ RouteChanges
    \/ \E k \in Hooks : HookStep(k)
    \/ \E g \in Relays : RelayRecords(g) \/ RelayReleases(g)
    \/ SourcesRestart

DeliverySpec == DeliveryInit /\ [][DeliveryNext]_deliveryVars

-----------------------------------------------------------------------------
(* Properties                                                              *)

DeliveryTypeOK ==
    /\ secret \in 0..MaxSecret /\ secrets \in 0..MaxSecret
    /\ degraded \in BOOLEAN /\ route \in BOOLEAN
    /\ ledger \subseteq Deliveries /\ seen \subseteq Deliveries /\ inFlight \subseteq Deliveries
    /\ told \subseteq Deliveries /\ lost \subseteq Deliveries
    /\ hook \in [Hooks -> Hook \cup {None}]
    /\ relay \in [Relays -> Relay \cup {None}]

Relaying(d) == {g \in Relays : relay[g] # None /\ relay[g].d = d}

(* What the forge was told is done is in the ledger, or a relay that will  *)
(* record it is running: while the process lives no accepted push goes     *)
(* missing, unless its relay failed to write or lost its source            *)
(* (handleSourceWebhook, relayVerifiedPush).                               *)
AcknowledgedIsKept ==
    \A d \in told \ lost : d \in ledger \/ \E g \in Relaying(d) : relay[g].pc = "poll"

(* A delivery that is being admitted was signed with the secret the source *)
(* has now: a rotation or a deletion never lets an old one through.        *)
AdmittedUnderSecret ==
    \A k \in Hooks : hook[k] # None /\ hook[k].pc # "waiting" => hook[k].secret = secret

(* One relay of a delivery at a time, and its claim ends with it.          *)
OneRelay ==
    \A d \in Deliveries : /\ Cardinality(Relaying(d)) <= 1
                          /\ d \in inFlight <=> Relaying(d) # {}
=============================================================================
