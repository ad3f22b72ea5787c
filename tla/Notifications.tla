---------------------------- MODULE Notifications ----------------------------
(***************************************************************************)
(* notifications.json and the incidents that wait for a channel            *)
(* (alerting.go).  An update of the file holds notificationsMu; the        *)
(* tracker and the outbox's callbacks read the file without it.  The first *)
(* usable channel starts a goroutine that announces what is already open.  *)
(***************************************************************************)
EXTENDS Absence, Naturals

CONSTANTS
    ChannelIds,     \* alert channels
    FlatChannels,   \* of those, the ones the flat settings form edits
    WatchedRules,   \* what the tracker alerts on, beside the channels' own health
    MaxAnnouncers   \* bound: goroutines announcing at a time

ASSUME ChannelConstants ==
    /\ FlatChannels \subseteq ChannelIds /\ ChannelIds \cap WatchedRules = {} /\ None \notin ChannelIds
    /\ MaxAnnouncers \in Nat

VARIABLES
    stored,         \* the channels in notifications.json
    opened,         \* rules with an open incident; a channel is the rule of its health
    notified,       \* of those, the announced ones
    observing,      \* the Observe that holds the tracker's lock
    announcers,     \* running AnnounceUnannounced, by what they do next
    retiring,       \* channels deleted whose incident is not yet retired
    complaint,      \* the channel whose dead letter the outbox's loop is reporting
    starting,       \* RunAlerting has not looked for orphans yet
    unannounced     \* history: a channel became the first in a save that reported an error

channelVars == <<stored, opened, notified, observing, announcers, retiring, complaint,
                 starting, unannounced>>

AlertRules == WatchedRules \cup ChannelIds

(* What Observe has found out about a rule when it takes the lock.         *)
Observation == [rule: AlertRules, notify: BOOLEAN]

ASSUME ChannelRecords == None \notin Observation

Usable(config) == {c \in ChannelIds : config[c] = "usable"}

(* alertChannelsConfigured: a file that cannot be read counts as one with  *)
(* channels.                                                               *)
HasChannels == {Usable(stored) # {}, TRUE}

TrackerFree == observing = None
Announcing == announcers["asks"] + announcers["marks"]
StartAnnouncer ==
    /\ Announcing < MaxAnnouncers
    /\ announcers' = [announcers EXCEPT !["asks"] = @ + 1]

-----------------------------------------------------------------------------
(* updateNotifications: one locked read, change and save.  An error leaves *)
(* the old file or, when only the last sync failed, the new one.           *)

FirstChannel(config) == Usable(stored) = {} /\ Usable(config) # {}

Saved(config) ==
    /\ stored' = config
    /\ IF FirstChannel(config) THEN StartAnnouncer ELSE UNCHANGED announcers
    /\ UNCHANGED unannounced

(* Mutant: an edit that makes an unusable channel usable is no first one.  *)
SavedQuietly(config) ==
    /\ stored' = config
    /\ IF FirstChannel(config) /\ \A c \in ChannelIds : stored[c] = "none"
       THEN StartAnnouncer ELSE UNCHANGED announcers
    /\ UNCHANGED unannounced

NotSaved(config) ==
    /\ stored' \in {stored, config}
    /\ unannounced' = (unannounced \/ (stored' # stored /\ FirstChannel(config)))
    /\ UNCHANGED announcers

(* channelCRUD, PUT: ValidateChannel lets only usable channels through.    *)
PutChannel(c) ==
    /\ LET config == [stored EXCEPT ![c] = "usable"] IN Saved(config) \/ NotSaved(config)
    /\ UNCHANGED <<opened, notified, observing, retiring, complaint, starting>>

(* handleNotifications: the flat fields.  An email channel may be left     *)
(* without what it needs to send; clearing a channel removes it.           *)
PatchSettings(c, form) ==
    /\ LET config == [stored EXCEPT ![c] = form] IN Saved(config) \/ NotSaved(config)
    /\ UNCHANGED <<opened, notified, observing, retiring, complaint, starting>>

(* channelCRUD, DELETE: the incident is retired once the file is written.  *)
DeleteChannel(c) ==
    /\ stored[c] # "none"
    /\ LET config == [stored EXCEPT ![c] = "none"]
       IN \/ Saved(config) /\ retiring' = retiring \cup {c}
          \/ NotSaved(config) /\ UNCHANGED retiring
    /\ UNCHANGED <<opened, notified, observing, complaint, starting>>

RetireChannel(c) ==
    /\ c \in retiring /\ TrackerFree
    /\ retiring' = retiring \ {c}
    /\ opened' = opened \ {c} /\ notified' = notified \ {c}
    /\ UNCHANGED <<stored, observing, announcers, complaint, starting, unannounced>>

-----------------------------------------------------------------------------
(* AnnounceWith: the channels are looked for before the lock is taken.     *)

AnnouncerOnly == UNCHANGED <<stored, opened, observing, retiring, complaint, starting>>

AnnouncerAsks ==
    /\ announcers["asks"] > 0
    /\ \E some \in HasChannels :
          announcers' = [asks |-> announcers["asks"] - 1,
                         marks |-> IF some THEN announcers["marks"] + 1 ELSE announcers["marks"]]
    /\ UNCHANGED <<notified, unannounced>> /\ AnnouncerOnly

AnnouncerMarks ==
    /\ announcers["marks"] > 0 /\ TrackerFree
    /\ announcers' = [announcers EXCEPT !["marks"] = @ - 1]
    /\ notified' = opened /\ unannounced' = FALSE
    /\ AnnouncerOnly

-----------------------------------------------------------------------------
(* Observe, which reads the channels under the tracker's lock.             *)

Observes(r) ==
    /\ TrackerFree /\ r \notin opened
    /\ \E some \in HasChannels : observing' = [rule |-> r, notify |-> some]
    /\ UNCHANGED <<stored, opened, notified, announcers, retiring, starting, unannounced>>

RuleObserved(r) == r \in WatchedRules /\ Observes(r) /\ UNCHANGED complaint

Opens ==
    /\ ~TrackerFree
    /\ opened' = opened \cup {observing.rule}
    /\ notified' = IF observing.notify THEN notified \cup {observing.rule} ELSE notified
    /\ observing' = None
    /\ UNCHANGED <<stored, announcers, retiring, complaint, starting, unannounced>>

(* A passing check, or OnChannelDelivered for a channel still in the file. *)
Recovers(r) ==
    /\ r \in opened /\ TrackerFree /\ (r \in ChannelIds => stored[r] # "none")
    /\ opened' = opened \ {r} /\ notified' = notified \ {r}
    /\ UNCHANGED <<stored, observing, announcers, retiring, complaint, starting, unannounced>>

(* OnChannelDeadLetter: only another usable channel could tell anybody.    *)
DeadLetter(c) ==
    /\ stored[c] # "none" /\ Usable(stored) \ {c} # {}
    /\ complaint = None /\ complaint' = c
    /\ UNCHANGED <<stored, opened, notified, observing, announcers, retiring, starting, unannounced>>

ComplaintObserved(c) ==
    /\ complaint = c /\ complaint' = None
    /\ IF c \in opened THEN TrackerFree /\ UNCHANGED <<stored, opened, notified, observing,
                                             announcers, retiring, starting, unannounced>>
       ELSE Observes(c)

-----------------------------------------------------------------------------
(* The process stops anywhere; incidents and channels are on disk.  The    *)
(* runners feed the tracker before RunAlerting looks for orphans.          *)
AlertsRestart ==
    /\ observing' = None /\ announcers' = [asks |-> 0, marks |-> 0]
    /\ retiring' = {} /\ complaint' = None /\ starting' = TRUE
    /\ UNCHANGED <<stored, opened, notified, unannounced>>

(* retireOrphanIncidents, then AnnounceUnannounced.                        *)
RunAlerting ==
    /\ starting /\ TrackerFree
    /\ starting' = FALSE
    /\ opened' = {r \in opened : r \in ChannelIds => stored[r] # "none"}
    /\ notified' = notified \cap opened'
    /\ StartAnnouncer
    /\ UNCHANGED <<stored, observing, retiring, complaint, unannounced>>

-----------------------------------------------------------------------------
ChannelInit ==
    /\ stored = [c \in ChannelIds |-> "none"] /\ opened = {} /\ notified = {}
    /\ observing = None /\ announcers = [asks |-> 0, marks |-> 0]
    /\ retiring = {} /\ complaint = None /\ starting = FALSE /\ unannounced = FALSE

ChannelNext ==
    \/ AnnouncerAsks \/ AnnouncerMarks \/ Opens \/ AlertsRestart \/ RunAlerting
    \/ \E c \in ChannelIds :
          PutChannel(c) \/ DeleteChannel(c) \/ RetireChannel(c) \/ DeadLetter(c) \/ ComplaintObserved(c)
    \/ \E c \in FlatChannels, form \in {"none", "unusable", "usable"} : PatchSettings(c, form)
    \/ \E r \in WatchedRules : RuleObserved(r)
    \/ \E r \in AlertRules : Recovers(r)

ChannelSpec == ChannelInit /\ [][ChannelNext]_channelVars

-----------------------------------------------------------------------------
(* Properties                                                              *)

ChannelTypeOK ==
    /\ stored \in [ChannelIds -> {"none", "unusable", "usable"}]
    /\ opened \subseteq AlertRules /\ notified \subseteq opened
    /\ observing \in Observation \cup {None}
    /\ announcers \in [{"asks", "marks"} -> 0..MaxAnnouncers]
    /\ retiring \subseteq ChannelIds /\ complaint \in ChannelIds \cup {None}
    /\ starting \in BOOLEAN /\ unannounced \in BOOLEAN

(* An incident that opened while nobody could be told is announced when    *)
(* somebody can: with a usable channel and no announcement on its way,     *)
(* nothing open is left unannounced, whichever of Observe and the save of  *)
(* the channel came first.  Only a save that reported an error after it    *)
(* replaced the file starts no announcement (updateNotifications).         *)
AnnouncementDue == Announcing > 0 \/ starting \/ unannounced
OpenIsAnnounced ==
    Usable(stored) # {} /\ ~AnnouncementDue => opened \subseteq notified

(* A channel that was deleted keeps no open incident about its health      *)
(* (channelCRUD: it "can never recover"), until the next start.  It fails: *)
(* a dead letter that read the file before the delete opens it afterwards, *)
(* and the flat settings form retires nothing.                             *)
DeletedIsClosed ==
    \A c \in ChannelIds \cap opened : stored[c] = "none" => c \in retiring \/ starting
=============================================================================
