------------------------------ MODULE Watching ------------------------------
(***************************************************************************)
(* What watches the fleet and tells the owner: the monitor runner, domain  *)
(* health, the holds and silences of alert rules, the channels they are    *)
(* announced on, the heartbeat receivers, the cleanup audits, the link to  *)
(* Observe and the discovery of sibling products.                          *)
(* As in Services, each has a lock and a file of its own and reads no      *)
(* variable of another (what it reads of the incident tracker it keeps     *)
(* itself), so a behaviour is a behaviour of one of them.                  *)
(***************************************************************************)
EXTENDS MonitorRunner, DomainHealth, AlertHolds, Silences, Notifications, Heartbeats,
        Cleanup, ObserveLink, Siblings

VARIABLE watcher        \* the one that runs

WatchingInit ==
    /\ watcher \in {"monitors", "domains", "holds", "silences", "channels",
                    "heartbeats", "cleanup", "observe", "siblings"}
    /\ MonitorInit /\ DomainInit /\ HoldInit /\ SilenceInit /\ ChannelInit
    /\ HeartbeatInit /\ CleanupInit /\ LinkInit /\ SiblingInit

WatchingNext ==
    /\ UNCHANGED watcher
    /\ IF watcher = "monitors" THEN MonitorNext ELSE UNCHANGED monitorVars
    /\ IF watcher = "domains" THEN DomainNext ELSE UNCHANGED domainVars
    /\ IF watcher = "holds" THEN HoldNext ELSE UNCHANGED holdVars
    /\ IF watcher = "silences" THEN SilenceNext ELSE UNCHANGED silenceVars
    /\ IF watcher = "channels" THEN ChannelNext ELSE UNCHANGED channelVars
    /\ IF watcher = "heartbeats" THEN HeartbeatNext ELSE UNCHANGED heartbeatVars
    /\ IF watcher = "cleanup" THEN CleanupNext ELSE UNCHANGED cleanupVars
    /\ IF watcher = "observe" THEN LinkNext ELSE UNCHANGED linkVars
    /\ IF watcher = "siblings" THEN SiblingNext ELSE UNCHANGED siblingVars

watchingVars == <<watcher, monitorVars, domainVars, holdVars, silenceVars,
                  channelVars, heartbeatVars, cleanupVars, linkVars, siblingVars>>

WatchingSpec == WatchingInit /\ [][WatchingNext]_watchingVars

-----------------------------------------------------------------------------
(* Every one of them keeps the types of its state.                         *)
WatchingTypeOK ==
    /\ MonitorTypeOK /\ DomainTypeOK /\ HoldTypeOK /\ SilenceTypeOK /\ ChannelTypeOK
    /\ HeartbeatTypeOK /\ CleanupTypeOK /\ LinkTypeOK /\ SiblingTypeOK

(* What is concluded about a server is of one reading of it: an incident   *)
(* is retired on evidence alone, and probes are shown with the products    *)
(* they were made for, unless two sweeps were at the server together       *)
(* (domains.go, siblings.go).                                              *)
RestsOnEvidence == RetiredOnEvidence /\ ProbedAsListed

(* What the owner asked to be quiet stays so for as long as the code       *)
(* promises: an incident sends nothing until its silence ends; a dismissed *)
(* finding stays hidden, whichever audits end, until a complete one does   *)
(* not list it; a deleted receiver has no result once it was forgotten,    *)
(* until a ping that had read it before ends: the code waits for none      *)
(* (alerting.go, cleanup.go, heartbeat.go).                                *)
StaysAsAsked == SilencedStaysQuiet /\ DismissedStaysHidden /\ ForgottenStaysForgotten

(* An alert that is held or could not be sent yet goes out in the end: a   *)
(* hold ends, and what opened while there was no channel is announced with *)
(* the first one (alerting.go).                                            *)
AlertsGoOut == HoldsEnd /\ OpenIsAnnounced
=============================================================================
