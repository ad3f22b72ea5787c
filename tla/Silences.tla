------------------------------ MODULE Silences ------------------------------
(***************************************************************************)
(* Silences (alerting.go): created and removed over HTTP, kept in memory   *)
(* and in silences.json, pruned by whoever asks once they have expired,    *)
(* and what they cover among the open incidents.  A write of a file may    *)
(* fail before or after the new content is in place, and the process may   *)
(* stop between any two steps.                                             *)
(***************************************************************************)
EXTENDS Absence

CONSTANTS
    SilenceIds,     \* silences ever created
    SilencedRules   \* alert rules they may cover, all of them failing at times

VARIABLES
    covered,        \* what each silence covers; nothing when it is not created
    muted,          \* silenceStore.list
    mutedFile,      \* silences.json
    elapsed,        \* silences whose time has passed
    announced,      \* silences added whose request has not closed what they cover
    incidents,      \* rules with an open incident
    incidentsFile,  \* incidents.json
    waiting,        \* rules failing and held
    promised,       \* history: created with success
    asked,          \* history: asked to be removed
    withdrawn,      \* history: removed with success
    returned        \* history: incidents that a restart brought back

silenceVars == <<covered, muted, mutedFile, elapsed, announced, incidents, incidentsFile,
                 waiting, promised, asked, withdrawn, returned>>

-----------------------------------------------------------------------------
(* saveLocked: an error leaves the old file or, when only the last sync    *)
(* failed, the new one; either way memory keeps what was changed.          *)
SilencesSaved == mutedFile' = muted'
SilencesUnsaved == mutedFile' \in {mutedFile, muted'}

(* persistLocked, whose error is only logged.                              *)
IncidentsSaved == incidentsFile' \in {incidentsFile, incidents'}

(* Active: what has expired leaves memory and, if it can be written, disk. *)
Active == muted \ elapsed
Prune ==
    /\ muted' = Active
    /\ IF Active = muted THEN UNCHANGED mutedFile ELSE SilencesUnsaved

(* alertSilenced *)
Silenced(r) == \E s \in Active : r \in covered[s]

-----------------------------------------------------------------------------
(* handleSilences, POST: the silence is stored first.  What it covers is   *)
(* closed next, in a critical section of the tracker.                      *)

AddSilence(s, rules) ==
    /\ covered[s] = {} /\ rules # {}
    /\ covered' = [covered EXCEPT ![s] = rules]
    /\ muted' = muted \cup {s}
    /\ \/ SilencesSaved /\ announced' = announced \cup {s}
       \/ SilencesUnsaved /\ UNCHANGED announced
    /\ UNCHANGED <<elapsed, incidents, incidentsFile, waiting, promised, asked, withdrawn,
                   returned>>

(* Mutant: the request only stores the silence.                            *)
CloseNothing(s) ==
    /\ s \in announced
    /\ announced' = announced \ {s}
    /\ promised' = promised \cup {s}
    /\ UNCHANGED <<covered, muted, mutedFile, elapsed, incidents, incidentsFile, waiting,
                   asked, withdrawn, returned>>

(* CloseMatching and the answer.                                           *)
CloseCovered(s) ==
    /\ s \in announced
    /\ announced' = announced \ {s}
    /\ incidents' = incidents \ covered[s]
    /\ IF incidents' = incidents THEN UNCHANGED incidentsFile ELSE IncidentsSaved
    /\ promised' = promised \cup {s}
    /\ returned' = returned \ covered[s]
    /\ UNCHANGED <<covered, muted, mutedFile, elapsed, waiting, asked, withdrawn>>

(* handleSilences, DELETE.  Its list names it from the moment it is added. *)
RemoveSilence(s) ==
    /\ s \in muted
    /\ muted' = muted \ {s}
    /\ asked' = asked \cup {s}
    /\ \/ SilencesSaved /\ withdrawn' = withdrawn \cup {s}
       \/ SilencesUnsaved /\ UNCHANGED withdrawn
    /\ UNCHANGED <<covered, elapsed, announced, incidents, incidentsFile, waiting, promised, returned>>

(* handleSilences, GET.                                                    *)
ListSilences ==
    /\ Prune
    /\ UNCHANGED <<covered, elapsed, announced, incidents, incidentsFile, waiting, promised,
                   asked, withdrawn, returned>>

SilenceElapses(s) ==
    /\ covered[s] # {} /\ s \notin elapsed
    /\ elapsed' = elapsed \cup {s}
    /\ UNCHANGED <<covered, muted, mutedFile, announced, incidents, incidentsFile, waiting,
                   promised, asked, withdrawn, returned>>

-----------------------------------------------------------------------------
(* The tracker, which asks under its own lock: a silence added between the *)
(* question and the opening closes what it covers after the opening.       *)

OpensUnlessSilenced(r) ==
    /\ Prune
    /\ IF Silenced(r) THEN waiting' = waiting \cup {r} /\ UNCHANGED <<incidents, incidentsFile>>
       ELSE waiting' = waiting \ {r} /\ incidents' = incidents \cup {r} /\ IncidentsSaved
    /\ UNCHANGED <<covered, elapsed, announced, promised, asked, withdrawn, returned>>

(* A failure at the threshold, or past it (Observe).                       *)
RuleFails(r) == r \notin incidents /\ OpensUnlessSilenced(r)

(* ReleaseHolds, once a minute.                                            *)
Release(r) == r \in waiting /\ r \notin incidents /\ OpensUnlessSilenced(r)

RulePasses(r) ==
    /\ r \in incidents \cup waiting
    /\ waiting' = waiting \ {r} /\ incidents' = incidents \ {r} /\ returned' = returned \ {r}
    /\ IF r \in incidents THEN IncidentsSaved ELSE UNCHANGED incidentsFile
    /\ UNCHANGED <<covered, muted, mutedFile, elapsed, announced, promised, asked, withdrawn>>

(* openSilences and the tracker read their files again.  A request the     *)
(* stop cut off has told nobody of its silence.                            *)
DashRestarts ==
    /\ muted' = mutedFile /\ incidents' = incidentsFile
    /\ returned' = incidentsFile \cap (returned \cup (SilencedRules \ incidents))
    /\ announced' = {} /\ waiting' = {}
    /\ UNCHANGED <<covered, mutedFile, elapsed, incidentsFile, promised, asked, withdrawn>>

-----------------------------------------------------------------------------
SilenceInit ==
    /\ covered = [s \in SilenceIds |-> {}]
    /\ muted = {} /\ mutedFile = {} /\ elapsed = {} /\ announced = {}
    /\ incidents = {} /\ incidentsFile = {} /\ waiting = {}
    /\ promised = {} /\ asked = {} /\ withdrawn = {} /\ returned = {}

SilenceNext ==
    \/ ListSilences \/ DashRestarts
    \/ \E s \in SilenceIds :
          \/ \E rules \in SUBSET SilencedRules : AddSilence(s, rules)
          \/ CloseCovered(s) \/ RemoveSilence(s) \/ SilenceElapses(s)
    \/ \E r \in SilencedRules : RuleFails(r) \/ Release(r) \/ RulePasses(r)

SilenceSpec == SilenceInit /\ [][SilenceNext]_silenceVars

-----------------------------------------------------------------------------
(* Properties                                                              *)

SilenceTypeOK ==
    /\ covered \in [SilenceIds -> SUBSET SilencedRules]
    /\ {muted, mutedFile, elapsed, announced, promised, asked, withdrawn} \subseteq SUBSET SilenceIds
    /\ {incidents, incidentsFile, waiting, returned} \subseteq SUBSET SilencedRules

(* A silence somebody was told of is in force until it expires or is       *)
(* removed, over failing writes of other silences, prunes and restarts,    *)
(* and nothing it covers stays open or opens meanwhile; only a restart     *)
(* from an incidents.json that could not be written brings such an         *)
(* incident back.  One removed with success does not return (handleSilences). *)
SilencedStaysQuiet ==
    /\ \A s \in promised \ (asked \cup elapsed) :
          /\ s \in muted \cap mutedFile
          /\ incidents \cap covered[s] \subseteq returned
    /\ withdrawn \cap (muted \cup mutedFile) = {}
=============================================================================
