------------------------------ MODULE Services ------------------------------
(***************************************************************************)
(* The dashboard's services beside the operation manager, the alerts and   *)
(* the monitors.  They are separate objects with locks and files of their  *)
(* own and read no variable of one another, so what one of them can do     *)
(* alone it can do among the others: a behaviour of this specification is  *)
(* a behaviour of one of them.                                             *)
(***************************************************************************)
EXTENDS RestoreTests, BackupWatch, BackupPolicy, BackupSetup, SourceDeliveries,
        Access, OperationJournal, EventStream, SetupTurn, Groups, FleetCache

VARIABLE service        \* the one that runs

ServicesInit ==
    /\ service \in {"restore tests", "backups", "policy", "setup", "sources",
                    "access", "journal", "stream", "turn", "groups", "fleet"}
    /\ RestoreInit /\ WatchInit /\ PolicyInit /\ SetupInit /\ DeliveryInit
    /\ AccessInit /\ JournalInit /\ StreamInit /\ TurnInit /\ GroupInit /\ FleetInit

ServicesNext ==
    /\ UNCHANGED service
    /\ IF service = "restore tests" THEN RestoreNext ELSE UNCHANGED restoreVars
    /\ IF service = "sources" THEN DeliveryNext ELSE UNCHANGED deliveryVars
    /\ IF service = "access" THEN AccessNext ELSE UNCHANGED accessVars
    /\ IF service = "journal" THEN JournalNext ELSE UNCHANGED journalVars
    /\ IF service = "stream" THEN StreamNext ELSE UNCHANGED streamVars
    /\ IF service = "turn" THEN TurnNext ELSE UNCHANGED turnVars
    /\ IF service = "groups" THEN GroupNext ELSE UNCHANGED groupVars
    /\ IF service = "fleet" THEN FleetNext ELSE UNCHANGED fleetVars
    /\ IF service = "setup" THEN SetupNext ELSE UNCHANGED setupVars
    /\ IF service = "policy" THEN PolicyNext ELSE UNCHANGED policyVars
    /\ IF service = "backups" THEN WatchNext ELSE UNCHANGED watchVars

servicesVars == <<service, restoreVars, watchVars, policyVars, setupVars, deliveryVars,
                  accessVars, journalVars, streamVars, turnVars, groupVars, fleetVars>>

ServicesSpec == ServicesInit /\ [][ServicesNext]_servicesVars

-----------------------------------------------------------------------------
(* Every service keeps the types of its state.                             *)
ServicesTypeOK ==
    /\ RestoreTypeOK /\ WatchTypeOK /\ PolicyTypeOK /\ SetupTypeOK
    /\ DeliveryTypeOK /\ AccessTypeOK /\ JournalTypeOK /\ StreamTypeOK
    /\ TurnTypeOK /\ GroupTypeOK /\ FleetTypeOK

(* What takes long runs once at a time, though it is chosen under a lock,  *)
(* done outside it and released by a goroutine of its own: one run of a    *)
(* restore test, one verification of a server's backups, one relay of a    *)
(* delivery (restoretest.go, backuptests.go, gitsource.go).                *)
SingleFlight == OneRunPerTest /\ OneVerification /\ OneRelay

(* A client that follows an operation gets all of its history: holes in    *)
(* what is kept are marked, no event waits for a wake-up that was lost,    *)
(* and the end is told only after everything (manager.go, operations.go).  *)
StreamsAreWhole == WholeReplayIsHonest /\ NoWakeupLost /\ CompleteIsWhole

(* Changes of the owner's groups by several processes leave the file as if *)
(* made one after the other, with one entry per name (server.go).          *)
GroupsAddUp == WritesAddUp /\ OneEntryPerName
=============================================================================
