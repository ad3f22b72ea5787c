--------------------------- MODULE IncidentTracker ---------------------------
(***************************************************************************)
(* The incident state machine of teploy-dash (internal/incident): streaks  *)
(* of failing and passing observations per rule become incidents, opened   *)
(* once, announced to the outbox, held while a hold applies, and recovered *)
(* once.                                                                   *)
(*                                                                         *)
(* Every operation runs under one mutex.  It changes the memory and saves  *)
(* incidents.json (one action here), then hands its alerts to the outbox   *)
(* one by one while it still holds the mutex: "out" is what it has left to *)
(* hand over, and the mutex is free (Unlocked, a guard of every operation  *)
(* where it is composed in Alerting) when "out" is empty.                  *)
(*                                                                         *)
(* Whether a rule is held or silenced and whether channels are configured  *)
(* are asked of other components at each use, and are inputs here.         *)
(***************************************************************************)
EXTENDS AlertEvents

CONSTANTS
    OneShot,       \* rules with Policy.AutoResolveAfter
    FailAfter, RecoverAfter,   \* Policy, the same for every rule here
    Repeats                    \* Policy.RepeatEvery is set, or severity escalates

ASSUME TrackerConstants ==
    /\ IsFiniteSet(Rules) /\ OneShot \subseteq Rules
    /\ FailAfter \in Nat \ {0} /\ RecoverAfter \in Nat \ {0}
    /\ Repeats \in BOOLEAN

VARIABLES
    streak,     \* t.states: failing and passing streak of a rule, saturated
    held,       \* rules whose opening is being held
    incident,   \* t.incidents: the open incident of a rule, or None
    file,       \* incidents.json
    firstRun,   \* incidents.json does not exist
    adopting,   \* the first-run adoption window
    out         \* alerts the operation holding the mutex has left to hand over

trackerVars == <<streak, held, incident, file, firstRun, adopting, out>>

Incident == [id: Incs, notified: BOOLEAN]
Streak   == [fails: 0..FailAfter, oks: 0..RecoverAfter]
NoStreak == [fails |-> 0, oks |-> 0]

ASSUME TrackerRecords == None \notin Incident

IsOpen(r) == incident[r] # None
Unlocked  == out = << >>

IdsOf(table) == {table[r].id : r \in {q \in Rules : table[q] # None}}

(* An id that is nowhere is as good as a new random one.                   *)
NewIds(used) == Incs \ (used \cup IdsOf(incident) \cup IdsOf(file))

Alert(kind, r, i) == [kind |-> kind, rule |-> r, inc |-> i, aud |-> "all"]
Sending(ev)       == [ev |-> ev, held |-> FALSE]
Holding(ev)       == [ev |-> ev, held |-> TRUE]

Opening(r, i)  == Sending(Alert("opened", r, i))
Recovery(r, i) == Sending(Alert("recovered", r, i))

(* persistLocked: a failure is only logged, and may have become visible.   *)
Written == file' = incident' /\ firstRun' = FALSE
NoSave  == UNCHANGED <<file, firstRun, faults>>

Save ==
    \/ Written /\ UNCHANGED faults
    \/ /\ faults < MaxFaults
       /\ faults' = faults + 1
       /\ Written \/ UNCHANGED <<file, firstRun>>

-----------------------------------------------------------------------------
(* Observe                                                                 *)

UpTo(n, bound) == IF n < bound THEN n + 1 ELSE bound
Failed(r) == [fails |-> UpTo(streak[r].fails, FailAfter), oks |-> 0]
Passed(r) == [fails |-> 0, oks |-> UpTo(streak[r].oks, RecoverAfter)]

(* A failing observation below the threshold, or of a rule whose incident  *)
(* has nothing new to say.                                                 *)
FailQuietly(r) ==
    /\ IsOpen(r) \/ Failed(r).fails < FailAfter
    /\ streak' = [streak EXCEPT ![r] = Failed(r)]
    /\ UNCHANGED <<held, incident, adopting, out>>
    /\ IF IsOpen(r) /\ r \in OneShot THEN Save ELSE NoSave

(* A reminder, or an escalation, of an announced incident.                 *)
FailRepeats(r) ==
    /\ Repeats
    /\ IsOpen(r) /\ incident[r].notified
    /\ streak' = [streak EXCEPT ![r] = Failed(r)]
    /\ out' = <<Sending(Alert("repeat", r, incident[r].id))>>
    /\ UNCHANGED <<held, incident, adopting>>
    /\ Save

(* The threshold is reached under a hold: journaled once per episode.      *)
FailHeld(r) ==
    /\ ~IsOpen(r) /\ Failed(r).fails = FailAfter
    /\ streak' = [streak EXCEPT ![r] = Failed(r)]
    /\ held' = held \cup {r}
    /\ out' = IF r \in held THEN << >> ELSE <<Holding(Alert("opened", r, None))>>
    /\ UNCHANGED <<incident, adopting>>
    /\ NoSave

(* The threshold is reached: announced when channels are configured, and   *)
(* not in the adoption window.                                             *)
FailOpens(r, i, hasChannels) ==
    LET told == hasChannels /\ ~adopting
    IN  /\ ~IsOpen(r) /\ Failed(r).fails = FailAfter
        /\ streak' = [streak EXCEPT ![r] = Failed(r)]
        /\ held' = held \ {r}
        /\ incident' = [incident EXCEPT ![r] = [id |-> i, notified |-> told]]
        /\ out' = IF told THEN <<Opening(r, i)>> ELSE << >>
        /\ UNCHANGED adopting
        /\ Save

PassQuietly(r) ==
    /\ ~IsOpen(r) \/ Passed(r).oks < RecoverAfter
    /\ streak' = [streak EXCEPT ![r] = Passed(r)]
    /\ held' = held \ {r}
    /\ UNCHANGED <<incident, adopting, out>>
    /\ NoSave

Told(S) == {r \in S : incident[r].notified}

(* Mutant: an incident is closed without telling those who were told.      *)
ClosesSilently(S) ==
    /\ incident' = [r \in Rules |-> IF r \in S THEN None ELSE incident[r]]
    /\ out' = << >>

(* The incidents of S close, and what was announced recovers; the map is   *)
(* walked in any order.                                                    *)
Closes(S) ==
    /\ incident' = [r \in Rules |-> IF r \in S THEN None ELSE incident[r]]
    /\ out' \in SetToSeqs({Recovery(r, incident[r].id) : r \in Told(S)})

PassRecovers(r) ==
    /\ IsOpen(r) /\ Passed(r).oks = RecoverAfter
    /\ streak' = [streak EXCEPT ![r] = Passed(r)]
    /\ held' = held \ {r}
    /\ Closes({r})
    /\ UNCHANGED adopting
    /\ Save

-----------------------------------------------------------------------------
(* Retire, CloseMatching, Sweep, ReleaseHolds                              *)

Forget(S) == streak' = [r \in Rules |-> IF r \in S THEN NoStreak ELSE streak[r]]
             /\ held' = held \ S

(* Retire of a rule without an incident saves nothing.                     *)
RetireClosed(r) ==
    /\ ~IsOpen(r)
    /\ Forget({r})
    /\ UNCHANGED <<incident, adopting, out>>
    /\ NoSave

RetireOpen(r) ==
    /\ IsOpen(r)
    /\ Forget({r})
    /\ Closes({r})
    /\ UNCHANGED adopting
    /\ Save

(* A new silence closes what it covers; the streaks are kept.              *)
CloseMatching(S) ==
    /\ S # {} /\ \A r \in S : IsOpen(r)
    /\ Closes(S)
    /\ UNCHANGED <<streak, held, adopting>>
    /\ Save

(* Sweep closes one-shot incidents whose time has passed.                  *)
Sweep(S) ==
    /\ S # {} /\ S \subseteq OneShot /\ \A r \in S : IsOpen(r)
    /\ Closes(S)
    /\ Forget(S)
    /\ UNCHANGED adopting
    /\ Save

Releasable == {r \in held : ~IsOpen(r) /\ streak[r].fails = FailAfter}

(* ReleaseHolds opens the rules of S, those whose hold has ended while     *)
(* they were failing, and announces those of "told".                       *)
ReleaseHolds(S, id, told) ==
    /\ S # {} /\ S \subseteq Releasable
    /\ told \subseteq S /\ (adopting => told = {})
    /\ held' = held \ S
    /\ incident' = [r \in Rules |-> IF r \in S THEN [id |-> id[r], notified |-> r \in told]
                                    ELSE incident[r]]
    /\ out' \in SetToSeqs({Opening(r, id[r]) : r \in told})
    /\ UNCHANGED <<streak, adopting>>
    /\ Save

-----------------------------------------------------------------------------
(* Adoption and announcement                                               *)

(* Mutant: an adopted outage counts as announced.                          *)
AdoptAsTold(r, i) ==
    /\ ~IsOpen(r)
    /\ incident' = [incident EXCEPT ![r] = [id |-> i, notified |-> TRUE]]
    /\ UNCHANGED <<held, adopting, out>>
    /\ Save

Adopt(r, i) ==
    /\ ~IsOpen(r)
    /\ incident' = [incident EXCEPT ![r] = [id |-> i, notified |-> FALSE]]
    /\ UNCHANGED <<held, adopting, out>>
    /\ Save

(* AdoptOpen: an outage in the history at the first start.                 *)
AdoptOpen(r, i) ==
    /\ adopting
    /\ Adopt(r, i)
    /\ UNCHANGED streak

(* AdoptFailing: what was failing before anything watched it.              *)
AdoptFailing(r, i) ==
    /\ Adopt(r, i)
    /\ streak' = [streak EXCEPT ![r] = [fails |-> FailAfter, oks |-> 0]]

(* EndAdoption always saves; AnnounceUnannounced follows.                  *)
EndAdoption ==
    /\ adopting
    /\ adopting' = FALSE
    /\ UNCHANGED <<streak, held, incident, out>>
    /\ Save

Unannounced == {r \in Rules : IsOpen(r) /\ ~incident[r].notified}

MarkAnnounced ==
    incident' = [r \in Rules |-> IF r \in Unannounced
                                 THEN [incident[r] EXCEPT !.notified = TRUE]
                                 ELSE incident[r]]

SummaryAlert == [kind |-> "summary", rule |-> None, inc |-> None, aud |-> "human"]

MachineOpening(r) == Sending([Alert("opened", r, incident[r].id) EXCEPT !.aud = "machine"])

(* AnnounceWith: one incident as a normal opening, several as one summary  *)
(* for people and an opening each for machines.                            *)
Announce ==
    /\ Unannounced # {}
    /\ MarkAnnounced
    /\ \/ \E r \in Unannounced : Unannounced = {r} /\ out' = <<Opening(r, incident[r].id)>>
       \/ /\ Cardinality(Unannounced) > 1
          /\ \E each \in SetToSeqs({MachineOpening(r) : r \in Unannounced}) :
                out' = <<Sending(SummaryAlert)>> \o each
    /\ UNCHANGED <<streak, held, adopting>>
    /\ Save

(* Seed restores a streak from the check history; it sends nothing.        *)
Seed(r, s) ==
    /\ s.fails = 0 \/ s.oks = 0
    /\ streak' = [streak EXCEPT ![r] = s]
    /\ UNCHANGED <<held, incident, adopting, out>>
    /\ NoSave

(* flushLocked: the outbox took the next alert.                            *)
HandedOver ==
    /\ out' = Tail(out)
    /\ UNCHANGED <<streak, held, incident, file, firstRun, adopting>>

(* New: the incidents of the file; a first run adopts.                     *)
LoadIncidents ==
    /\ streak' = [r \in Rules |-> NoStreak]
    /\ held' = {}
    /\ incident' = file
    /\ adopting' = firstRun
    /\ out' = << >>
    /\ UNCHANGED <<file, firstRun>>

TrackerInit ==
    /\ streak = [r \in Rules |-> NoStreak]
    /\ held = {}
    /\ incident = [r \in Rules |-> None]
    /\ file = [r \in Rules |-> None]
    /\ firstRun \in BOOLEAN
    /\ adopting = firstRun
    /\ out = << >>
=============================================================================
