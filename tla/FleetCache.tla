----------------------------- MODULE FleetCache -----------------------------
(***************************************************************************)
(* The cache in front of the fleet (server.go, fleet.go): sweeps that read *)
(* one server after the other, changes that invalidate what was read, and  *)
(* the last known state that is served while nothing fresh is there.  A    *)
(* server's state is the number of times it has changed.                   *)
(***************************************************************************)
EXTENDS Absence, Naturals

CONSTANTS
    FleetServers,   \* configured servers
    AppServers,     \* those that run an app
    MaxChanges      \* changes of the fleet

ASSUME FleetCacheConstants == AppServers \subseteq FleetServers /\ MaxChanges \in Nat

VARIABLES
    fleet,          \* what each server really is
    settled,        \* what it was when the cache was last invalidated
    generation,     \* fc.generation
    fresh,          \* which of the two caches are within their time
    observed,       \* fc.observations, and lastGoodObs once that is dropped
    shownBy,        \* which kind of sweep published that
    lastApps,       \* fc.lastGood
    refresh,        \* the sweep that holds the refreshing latch
    listing         \* the sweep of an MCP list call, which does not

fleetVars == <<fleet, settled, generation, fresh, observed, shownBy, lastApps, refresh, listing>>

(* An envelope keeps the last payload when its probe fails.                *)
Envelope == [ok: BOOLEAN, seen: 0..MaxChanges \cup {None}]
Sweep == [prev: [FleetServers -> Envelope] \cup {None}, generation: 0..MaxChanges,
          got: [FleetServers -> Envelope \cup {None}]]

Unread == [s \in FleetServers |-> None]
Collected(sweep) == sweep # None /\ \A s \in FleetServers : sweep.got[s] # None

-----------------------------------------------------------------------------
(* The fleet and its invalidation.                                         *)

(* A command, a config write or somebody else changes a server.            *)
ServerChanges(s) ==
    /\ fleet[s] < MaxChanges
    /\ fleet' = [fleet EXCEPT ![s] = @ + 1]
    /\ UNCHANGED <<settled, generation, fresh, observed, shownBy, lastApps, refresh, listing>>

(* invalidate, once the command is over.                                   *)
Invalidate ==
    /\ generation < MaxChanges
    /\ generation' = generation + 1
    /\ settled' = fleet
    /\ fresh' = {}
    /\ UNCHANGED <<fleet, observed, shownBy, lastApps, refresh, listing>>

(* The two times to live are counted apart.                                *)
Expire(cache) ==
    /\ cache \in fresh
    /\ fresh' = fresh \ {cache}
    /\ UNCHANGED <<fleet, settled, generation, observed, shownBy, lastApps, refresh, listing>>

-----------------------------------------------------------------------------
(* Sweeps.                                                                 *)

(* Mutant: the generation of the moment of publishing is presented.        *)
BeginLate(prev) == [prev |-> prev, generation |-> MaxChanges, got |-> Unread]

BeginCollect(prev) == [prev |-> prev, generation |-> generation, got |-> Unread]

(* handleFleet and handleApps on a stale cache: beginRefresh with the last *)
(* envelopes if there is something to serve, coldFleet without them if not.*)
ReadFleet ==
    /\ "observations" \notin fresh /\ refresh = None
    /\ refresh' = BeginCollect(observed)
    /\ UNCHANGED <<fleet, settled, generation, fresh, observed, shownBy, lastApps, listing>>

ReadApps ==
    /\ "apps" \notin fresh /\ refresh = None
    /\ lastApps \cap AppServers = {} => "observations" \notin fresh
    /\ refresh' = BeginCollect(IF lastApps \cap AppServers = {} THEN None ELSE observed)
    /\ UNCHANGED <<fleet, settled, generation, fresh, observed, shownBy, lastApps, listing>>

(* mcpBackend.ListApps: no latch, and no envelopes to fall back on.        *)
ListApps ==
    /\ "apps" \notin fresh /\ listing = None
    /\ listing' = BeginCollect(None)
    /\ UNCHANGED <<fleet, settled, generation, fresh, observed, shownBy, lastApps, refresh>>

(* buildServerObservation.                                                 *)
Probed(sweep, s) ==
    {[sweep EXCEPT !.got[s] = [ok |-> TRUE, seen |-> fleet[s]]],
     [sweep EXCEPT !.got[s] = [ok |-> FALSE,
        seen |-> IF sweep.prev = None THEN None ELSE sweep.prev[s].seen]]}

Probe(s) ==
    /\ \/ /\ refresh # None /\ refresh.got[s] = None
          /\ refresh' \in Probed(refresh, s) /\ UNCHANGED listing
       \/ /\ listing # None /\ listing.got[s] = None
          /\ listing' \in Probed(listing, s) /\ UNCHANGED refresh
    /\ UNCHANGED <<fleet, settled, generation, fresh, observed, shownBy, lastApps>>

(* publish.  A sweep in which every server failed leaves the apps alone.   *)
Answered(sweep) == {s \in FleetServers : sweep.got[s].ok}
Published(sweep) ==
    /\ observed' = sweep.got
    /\ IF Answered(sweep) = {}
       THEN fresh' = fresh \cup {"observations"} /\ UNCHANGED lastApps
       ELSE fresh' = {"observations", "apps"} /\ lastApps' = Answered(sweep)

EndRefresh ==
    /\ Collected(refresh)
    /\ IF refresh.generation = generation THEN Published(refresh) /\ shownBy' = "refresh"
       ELSE UNCHANGED <<fresh, observed, shownBy, lastApps>>
    /\ refresh' = None
    /\ UNCHANGED <<fleet, settled, generation, listing>>

(* Discovery failed.                                                       *)
AbandonRefresh ==
    /\ refresh # None
    /\ refresh' = None
    /\ UNCHANGED <<fleet, settled, generation, fresh, observed, shownBy, lastApps, listing>>

(* It presents the generation of the moment it publishes.                  *)
EndListing ==
    /\ Collected(listing)
    /\ Published(listing) /\ shownBy' = "listing"
    /\ listing' = None
    /\ UNCHANGED <<fleet, settled, generation, refresh>>

-----------------------------------------------------------------------------
FleetInit ==
    /\ fleet = [s \in FleetServers |-> 0] /\ settled = fleet
    /\ generation = 0 /\ fresh = {} /\ lastApps = {}
    /\ observed = None /\ shownBy = "refresh" /\ refresh = None /\ listing = None

FleetNext ==
    \/ \E s \in FleetServers : ServerChanges(s) \/ Probe(s)
    \/ \E cache \in {"observations", "apps"} : Expire(cache)
    \/ Invalidate \/ ReadFleet \/ ReadApps \/ ListApps
    \/ EndRefresh \/ AbandonRefresh \/ EndListing

FleetSpec == FleetInit /\ [][FleetNext]_fleetVars

-----------------------------------------------------------------------------
(* Properties                                                              *)

FleetTypeOK ==
    /\ fleet \in [FleetServers -> 0..MaxChanges] /\ settled \in [FleetServers -> 0..MaxChanges]
    /\ generation \in 0..MaxChanges
    /\ fresh \subseteq {"observations", "apps"} /\ lastApps \subseteq FleetServers
    /\ observed \in [FleetServers -> Envelope] \cup {None}
    /\ shownBy \in {"refresh", "listing"}
    /\ refresh \in Sweep \cup {None} /\ listing \in Sweep \cup {None}

(* What a refresh published as fresh shows every change the cache was      *)
(* invalidated for: a sweep that began before one does not put its view    *)
(* back (server.go, fleetCache.generation).                                *)
FreshShowsChanges ==
    "observations" \in fresh /\ shownBy = "refresh" =>
        \A s \in FleetServers : observed[s].ok => observed[s].seen >= settled[s]

(* The same, whoever published it.                                         *)
AllFreshShowsChanges ==
    "observations" \in fresh =>
        \A s \in FleetServers : observed[s].ok => observed[s].seen >= settled[s]
=============================================================================
