----------------------------- MODULE AlertEvents -----------------------------
(* What the incident tracker and the alert outbox share: the alerts, and   *)
(* the storage faults of a behaviour.                                      *)
EXTENDS Integers, Sequences, FiniteSets, SequencesExt

CONSTANTS
    Rules,      \* monitors, restore tests, operation kinds, channels
    Incs,       \* incident ids (12 random bytes, never reused)
    Channels,   \* channel ids of the alert configuration
    Human,      \* those that receive rendered text (Channel.Human)
    None,
    MaxFaults   \* bound of the model: failing writes

ASSUME EventConstants ==
    /\ None \notin Channels \cup Incs \cup Rules
    /\ Human \subseteq Channels
    /\ MaxFaults \in Nat

VARIABLE faults

Kind  == {"opened", "repeat", "recovered", "summary"}
Event == [kind: Kind, rule: Rules \cup {None}, inc: Incs \cup {None},
          aud: {"all", "human", "machine"}]

ASSUME EventRecords == None \notin Event

(* The channels of an event, given those that are configured: by audience. *)
(* Per-channel kind filters and per-event channel lists are left out.      *)
ChannelsFor(configured, e) ==
    {c \in configured : \/ e.aud = "all"
                        \/ e.aud = "human" /\ c \in Human
                        \/ e.aud = "machine" /\ c \notin Human}
=============================================================================
