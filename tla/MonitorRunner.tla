--------------------------- MODULE MonitorRunner ---------------------------
(***************************************************************************)
(* The monitor runner: stored monitors, the schedulers that check them,    *)
(* the pings of push monitors, and the requests and sweeps that change a   *)
(* monitor in two places, the store and the runner, without a common lock. *)
(* One action per critical section of the runner or of the store.          *)
(*                                                                         *)
(* A generation is only ever compared with the live counter, which only    *)
(* grows, so the model keeps the answer: work is "live" until the next     *)
(* teardown of its monitor.                                                *)
(***************************************************************************)
EXTENDS Absence, Integers, FiniteSets

CONSTANTS
    Monitors,       \* monitor ids
    Tokens,         \* push tokens, each minted once
    Kinds,          \* the kinds requests ask for
    Requests,       \* requests and sweeps that may be under way together
    Tasks,          \* scheduler goroutines and pings that may be alive together
    MaxIncarnation, \* bound: incarnations the store assigns
    MaxRestarts     \* bound: process ends

ASSUME MonitorConstants ==
    /\ None \notin Monitors \cup Tokens
    /\ Kinds \subseteq {"probe", "push"}
    /\ MaxIncarnation \in Nat /\ MaxRestarts \in Nat

VARIABLES
    monFile,    \* monitors/<id>.json
    upRows,     \* monitors with an "up" row among the newest of history/<id>.jsonl
    incClock,   \* FileStore.incarnationClock, in memory
    task,       \* goroutines of startMonitor and calls of Ping
    pushEntry,  \* pushTokens, by monitor
    lastPing,   \* whether the last accepted ping is within interval + grace
    down,       \* monitors with an open incident (incidents.json)
    request,    \* handlers and sweeps between two of their calls
    monStopped, \* Runner.stopped
    boot,       \* enabled monitors Start has listed and not started yet
    restarts,
    clean       \* history: since the process started no two changes of a
                \* monitor overlapped, and no store call failed

monitorVars == <<monFile, upRows, incClock, task, pushEntry, lastPing,
                 down, request, monStopped, boot, restarts, clean>>

Config == [inc: Nat, on: BOOLEAN, kind: {"probe", "push"}, token: Tokens \cup {None}]
Task == [m: Monitors, cfg: Config, live: BOOLEAN, by: {"probe", "push", "ping"},
         pc: {"wait", "judged", "save", "publish", "accepted"}, up: BOOLEAN]
Request == [m: Monitors, cfg: Config, upSeen: BOOLEAN,
            pc: {"save", "stop", "read", "start", "remove", "delete"}]

ASSUME MonitorRecords == None \notin Config \cup Task \cup Request

Scheduled(m) == \E t \in Tasks : task[t] # None /\ task[t].m = m /\ task[t].live
                                 /\ task[t].by # "ping"
Busy == \E r \in Requests : request[r] # None
UsedTokens == {monFile[m].token : m \in {k \in Monitors : monFile[k] # None}}
    \cup {task[t].cfg.token : t \in {k \in Tasks : task[k] # None}}
    \cup {request[r].cfg.token : r \in {k \in Requests : request[k] # None}}
    \cup {pushEntry[m].token : m \in {k \in Monitors : pushEntry[k] # None}}

-----------------------------------------------------------------------------
(* The runner.                                                             *)

(* teardownLocked: the counter moves, the token is forgotten and stopCh is *)
(* closed.  A goroutine that waits ends; one that is in a check goes on.   *)
Torn(m) == [t \in Tasks |->
    IF task[t] = None \/ task[t].m # m THEN task[t]
    ELSE IF task[t].pc = "wait" THEN None ELSE [task[t] EXCEPT !.live = FALSE]]

Teardown(m) ==
    /\ task' = Torn(m)
    /\ pushEntry' = [pushEntry EXCEPT ![m] = None]

(* The incident closes under the same lock.                                *)
Retire(m) == down' = down \ {m}

At(r, pc) == request[r] # None /\ request[r].pc = pc
Advance(r, pc) == request' = [request EXCEPT ![r].pc = pc]
Return(r) == request' = [request EXCEPT ![r] = None]

(* A call of the runner leaves the store alone.                            *)
StoreKept == UNCHANGED <<monFile, upRows, incClock>>
RunnerKept == UNCHANGED <<task, pushEntry, lastPing, down, monStopped>>
BootKept == UNCHANGED <<boot, restarts>>

(* Mutant: a monitor that was disabled is not stopped.                     *)
ReloadOfEnabled(r) ==
    /\ At(r, "stop")
    /\ IF request[r].cfg.on
       THEN Teardown(request[r].m) /\ Advance(r, "read") /\ UNCHANGED down
       ELSE Return(r) /\ Retire(request[r].m) /\ UNCHANGED <<task, pushEntry>>
    /\ StoreKept /\ BootKept
    /\ UNCHANGED <<lastPing, monStopped, clean>>

(* Reload of an enabled monitor stops the old scheduler first, in a        *)
(* section of its own; of a disabled one it also retires the incident.     *)
ReloadStops(r) ==
    /\ At(r, "stop")
    /\ Teardown(request[r].m)
    /\ IF request[r].cfg.on
       THEN Advance(r, "read") /\ UNCHANGED down
       ELSE Return(r) /\ Retire(request[r].m)
    /\ StoreKept /\ BootKept
    /\ UNCHANGED <<lastPing, monStopped, clean>>

(* startMonitor: a stopped runner starts nothing; the history is read      *)
(* outside the lock.                                                       *)
StartReads(r) ==
    /\ At(r, "read")
    /\ IF monStopped
       THEN Return(r)
       ELSE request' = [request EXCEPT ![r].pc = "start", ![r].upSeen = request[r].m \in upRows]
    /\ StoreKept /\ RunnerKept /\ BootKept /\ UNCHANGED clean

(* The new scheduler.  Its first deadline counts from the newest accepted  *)
(* ping: the one in memory, an "up" row of the history whose age may be    *)
(* anything, or now.                                                       *)
StartRegisters(r, t) ==
    LET m == request[r].m
        cfg == request[r].cfg
    IN
    /\ At(r, "start")
    /\ Return(r)
    /\ IF monStopped
       THEN UNCHANGED <<task, pushEntry, lastPing>>
       ELSE /\ task[t] = None
            /\ task' = [Torn(m) EXCEPT ![t] =
                 [m |-> m, cfg |-> cfg, live |-> TRUE, by |-> cfg.kind, pc |-> "wait", up |-> FALSE]]
            /\ pushEntry' = [pushEntry EXCEPT ![m] =
                 IF cfg.kind = "push" THEN cfg ELSE None]
            /\ IF cfg.kind # "push" THEN UNCHANGED lastPing
               ELSE \E p \in {"fresh", "late"} :
                      /\ p = "late" => lastPing[m] = "late" \/ request[r].upSeen
                      /\ lastPing' = [lastPing EXCEPT ![m] = p]
    /\ StoreKept /\ BootKept /\ UNCHANGED <<down, monStopped, clean>>

(* Remove forgets everything about the monitor and retires its incident.   *)
RemoveMonitor(r) ==
    LET m == request[r].m IN
    /\ At(r, "remove")
    /\ Teardown(m) /\ Retire(m)
    /\ lastPing' = [lastPing EXCEPT ![m] = None]
    /\ Advance(r, "delete")
    /\ StoreKept /\ BootKept /\ UNCHANGED <<monStopped, clean>>

-----------------------------------------------------------------------------
(* The store.                                                              *)

(* Mutant: only the stored file is counted on, so a monitor that is made   *)
(* again starts over.                                                      *)
NextOfFile(m) == IF monFile[m] = None THEN 1 ELSE monFile[m].inc + 1

(* The incarnation of a save: past the clock and past the stored file.     *)
NextIncarnation(m) ==
    LET floor == IF monFile[m] = None THEN 0 ELSE monFile[m].inc
    IN  IF floor > incClock THEN floor + 1 ELSE incClock + 1

(* SaveMonitor: the store assigns the incarnation, and the caller goes on  *)
(* with it.  A failing write may leave the old file or the new one.        *)
SaveMonitor(r) ==
    LET m == request[r].m
        new == [request[r].cfg EXCEPT !.inc = NextIncarnation(m)]
    IN
    /\ At(r, "save")
    /\ new.inc <= MaxIncarnation
    /\ incClock' = new.inc
    /\ \/ /\ monFile' = [monFile EXCEPT ![m] = new]
          /\ request' = [request EXCEPT ![r].pc = "stop", ![r].cfg = new]
          /\ UNCHANGED clean
       \/ /\ \E f \in {monFile[m], new} : monFile' = [monFile EXCEPT ![m] = f]
          /\ Return(r)
          /\ clean' = FALSE
    /\ RunnerKept /\ BootKept /\ UNCHANGED upRows

(* DeleteMonitor: the monitor, then its history; either removal may fail.  *)
DeleteMonitor(r) ==
    LET m == request[r].m IN
    /\ At(r, "delete")
    /\ \/ /\ monFile' = [monFile EXCEPT ![m] = None]
          /\ upRows' = upRows \ {m}
          /\ UNCHANGED clean
       \/ /\ \/ monFile' = [monFile EXCEPT ![m] = None]
             \/ UNCHANGED monFile
          /\ clean' = FALSE
          /\ UNCHANGED upRows
    /\ Return(r)
    /\ RunnerKept /\ BootKept /\ UNCHANGED incClock

-----------------------------------------------------------------------------
(* Who changes monitors.  HTTP and the sweeps start after Start returned.  *)
(* Bound: after a restart they come one at a time; no property speaks of   *)
(* what overlapping changes leave behind then.                             *)

Open(r, m, cfg, pc) ==
    /\ request[r] = None
    /\ \A k \in Monitors : boot[k] = None
    /\ restarts > 0 => ~Busy
    /\ request' = [request EXCEPT ![r] = [m |-> m, cfg |-> cfg, upSeen |-> FALSE, pc |-> pc]]
    /\ clean' = (clean /\ ~Busy)
    /\ StoreKept /\ RunnerKept /\ BootKept

(* POST /api/monitors: the token is the server's.  An edit keeps it, a new *)
(* push monitor gets a new one; it is read before the save.                *)
PostMonitor(r, m, on, kind, minted) ==
    LET kept == IF monFile[m] = None THEN None ELSE monFile[m].token
        token == CASE kind # "push" -> None
                   [] kept # None -> kept
                   [] OTHER -> minted
    IN  /\ ~monStopped
        /\ kind = "push" /\ kept = None => minted \notin UsedTokens
        /\ Open(r, m, [inc |-> 0, on |-> on, kind |-> kind, token |-> token], "save")

DeleteRequest(r, m) ==
    /\ ~monStopped
    /\ Open(r, m, [inc |-> 0, on |-> FALSE, kind |-> "probe", token |-> None], "remove")

(* The fleet sweep creates what is missing and writes the owning server    *)
(* into what it finds, from the list it read; it removes what no app       *)
(* serves.  The heartbeat of a server's policy is saved the same way.      *)
SweepSaves(r, m) ==
    /\ ~monStopped
    /\ Open(r, m, IF monFile[m] = None
                  THEN [inc |-> 0, on |-> TRUE, kind |-> "probe", token |-> None]
                  ELSE monFile[m], "save")

-----------------------------------------------------------------------------
(* A check, a push evaluation and a ping commit in the same way: stale?,   *)
(* SaveCheck, then the result and the tracker under the lock.              *)

Is(t, pc) == task[t] # None /\ task[t].pc = pc
Move(t, pc) == task' = [task EXCEPT ![t].pc = pc]

(* A goroutine goes back to its timer; a stopped or torn-down one ends.    *)
Ended(t) == IF task[t].live /\ ~monStopped /\ task[t].by # "ping"
            THEN [task[t] EXCEPT !.pc = "wait", !.up = FALSE] ELSE None
Finish(t) == task' = [task EXCEPT ![t] = Ended(t)]

TaskOnly == StoreKept /\ BootKept /\ UNCHANGED <<pushEntry, lastPing, down, request, monStopped, clean>>

(* The timer fires: a probe starts, a push evaluation judges lastPing.     *)
Fire(t) ==
    /\ Is(t, "wait")
    /\ task[t].by = "push" => lastPing[task[t].m] = "late"
    /\ Move(t, "judged")
    /\ TaskOnly

(* The verdict is in: a probe may say anything, a late push is down.       *)
Judge(t, up) ==
    /\ Is(t, "judged")
    /\ task[t].by = "push" => ~up
    /\ task[t].by = "ping" => up = task[t].up
    /\ task' = [task EXCEPT ![t] = IF task[t].live THEN [@ EXCEPT !.pc = "save", !.up = up]
                                                   ELSE Ended(t)]
    /\ TaskOnly

(* The compare-and-set of SaveCheck.                                       *)
Applies(t) == LET f == monFile[task[t].m] IN f # None /\ f.inc = task[t].cfg.inc

SaveCheck(t) ==
    /\ Is(t, "save")
    /\ \/ /\ Applies(t)
          /\ IF task[t].up THEN upRows' = upRows \cup {task[t].m}
                          ELSE upRows' \in {upRows, upRows \ {task[t].m}}
          /\ Move(t, "publish")
       \/ /\ Finish(t)   \* dropped, or the append failed
          /\ UNCHANGED upRows
    /\ UNCHANGED <<monFile, incClock, pushEntry, lastPing, down, request, monStopped, clean>>
    /\ BootKept

(* Mutant: a check commits its verdict under whatever runs by then.        *)
PublishAnyway(t) ==
    LET m == task[t].m IN
    /\ Is(t, "publish")
    /\ down' \in IF task[t].up THEN {down \ {m}} ELSE {down, down \cup {m}}
    /\ IF task[t].by = "ping" /\ task[t].up THEN Move(t, "accepted") ELSE Finish(t)
    /\ StoreKept /\ BootKept /\ UNCHANGED <<pushEntry, lastPing, request, monStopped, clean>>

(* Under the lock: still this generation?  Then the result is the newest,  *)
(* and the tracker opens an incident when enough checks failed.            *)
Publish(t) ==
    LET m == task[t].m IN
    /\ Is(t, "publish")
    /\ IF task[t].live
       THEN /\ down' \in IF task[t].up THEN {down \ {m}} ELSE {down, down \cup {m}}
            /\ IF task[t].by = "ping" /\ task[t].up THEN Move(t, "accepted") ELSE Finish(t)
       ELSE Finish(t) /\ UNCHANGED down
    /\ StoreKept /\ BootKept /\ UNCHANGED <<pushEntry, lastPing, request, monStopped, clean>>

(* Ping moves the deadline in a section of its own.                        *)
MoveDeadline(t) ==
    /\ Is(t, "accepted")
    /\ lastPing' = [lastPing EXCEPT ![task[t].m] = IF task[t].live THEN "fresh" ELSE @]
    /\ Finish(t)
    /\ StoreKept /\ BootKept /\ UNCHANGED <<pushEntry, down, request, monStopped, clean>>

(* A ping or an explicit failure arrives for a token of the running set.   *)
Ping(t, m, up) ==
    /\ task[t] = None
    /\ pushEntry[m] # None
    /\ task' = [task EXCEPT ![t] = [m |-> m, cfg |-> pushEntry[m], live |-> TRUE,
                                    by |-> "ping", pc |-> "judged", up |-> up]]
    /\ TaskOnly

(* Time: interval and grace pass without a ping.                           *)
PingLate(m) ==
    /\ lastPing[m] = "fresh"
    /\ lastPing' = [lastPing EXCEPT ![m] = "late"]
    /\ StoreKept /\ BootKept
    /\ UNCHANGED <<task, pushEntry, down, request, monStopped, clean>>

-----------------------------------------------------------------------------
(* Stop closes every stopCh; checks under way finish without a teardown.   *)
StopMonitors ==
    /\ ~monStopped
    /\ monStopped' = TRUE
    /\ task' = [t \in Tasks |-> IF Is(t, "wait") THEN None ELSE task[t]]
    /\ StoreKept /\ BootKept /\ UNCHANGED <<pushEntry, lastPing, down, request, clean>>

(* The process ends anywhere and a new one lists the enabled monitors.     *)
MonitorsRestart ==
    /\ restarts < MaxRestarts
    /\ restarts' = restarts + 1
    /\ incClock' = 0
    /\ task' = [t \in Tasks |-> None]
    /\ pushEntry' = [m \in Monitors |-> None]
    /\ lastPing' = [m \in Monitors |-> None]
    /\ request' = [r \in Requests |-> None]
    /\ monStopped' = FALSE
    /\ boot' = [m \in Monitors |-> IF monFile[m] # None /\ monFile[m].on THEN monFile[m] ELSE None]
    /\ clean' = TRUE
    /\ UNCHANGED <<monFile, upRows, down>>

(* Start, one monitor after the other.                                     *)
StartListed(r, m) ==
    /\ boot[m] # None /\ ~Busy
    /\ boot' = [boot EXCEPT ![m] = None]
    /\ request' = [request EXCEPT ![r] = [m |-> m, cfg |-> boot[m], upSeen |-> FALSE, pc |-> "read"]]
    /\ StoreKept /\ RunnerKept /\ UNCHANGED <<restarts, clean>>

-----------------------------------------------------------------------------
MonitorInit ==
    /\ monFile = [m \in Monitors |-> None]
    /\ upRows = {}
    /\ incClock = 0
    /\ task = [t \in Tasks |-> None]
    /\ pushEntry = [m \in Monitors |-> None]
    /\ lastPing = [m \in Monitors |-> None]
    /\ down = {}
    /\ request = [r \in Requests |-> None]
    /\ monStopped = FALSE
    /\ boot = [m \in Monitors |-> None]
    /\ restarts = 0
    /\ clean = TRUE

RequestStep(r) ==
    \/ ReloadStops(r) \/ StartReads(r) \/ RemoveMonitor(r)
    \/ \E t \in Tasks : StartRegisters(r, t)
    \/ SaveMonitor(r) \/ DeleteMonitor(r)

NewRequest(r, m) ==
    \/ \E on \in BOOLEAN, kind \in Kinds, minted \in Tokens :
          PostMonitor(r, m, on, kind, minted)
    \/ DeleteRequest(r, m) \/ SweepSaves(r, m) \/ StartListed(r, m)

TaskStep(t) ==
    \/ Fire(t) \/ SaveCheck(t) \/ Publish(t) \/ MoveDeadline(t)
    \/ \E up \in BOOLEAN : Judge(t, up) \/ \E m \in Monitors : Ping(t, m, up)

MonitorNext ==
    \/ \E r \in Requests : RequestStep(r) \/ \E m \in Monitors : NewRequest(r, m)
    \/ \E t \in Tasks : TaskStep(t)
    \/ \E m \in Monitors : PingLate(m)
    \/ StopMonitors \/ MonitorsRestart

MonitorSpec == MonitorInit /\ [][MonitorNext]_monitorVars

-----------------------------------------------------------------------------
(* Properties                                                              *)

MonitorTypeOK ==
    /\ monFile \in [Monitors -> Config \cup {None}]
    /\ upRows \subseteq Monitors
    /\ incClock \in Nat
    /\ task \in [Tasks -> Task \cup {None}]
    /\ pushEntry \in [Monitors -> Config \cup {None}]
    /\ lastPing \in [Monitors -> {None, "fresh", "late"}]
    /\ down \subseteq Monitors
    /\ request \in [Requests -> Request \cup {None}]
    /\ boot \in [Monitors -> Config \cup {None}]
    /\ monStopped \in BOOLEAN /\ clean \in BOOLEAN /\ restarts \in Nat

(* A request of the runner that will schedule m, or end its incident.      *)
Starting(m) == \E r \in Requests :
    request[r] # None /\ request[r].m = m /\ request[r].pc \in {"read", "start"}

(* Nobody is left with a card that nothing will close: while the process   *)
(* that opened it runs, an open incident has a scheduler, or a reload of   *)
(* its monitor is between its two sections (Reload, Remove).               *)
OpenIsWatched ==
    restarts = 0 /\ ~monStopped => \A m \in down : Scheduled(m) \/ Starting(m)

SameConfig(m) == monFile[m] # None =>
    \A t \in Tasks : task[t] # None /\ task[t].m = m /\ task[t].cfg.inc = monFile[m].inc
                     => task[t].cfg = monFile[m]

(* An incarnation names one configuration: what the store accepts a check  *)
(* by is the very configuration the check ran under, across edits, deletes,*)
(* recreations and failing saves (SaveMonitor, SaveCheck), in the process  *)
(* that counts the incarnations.                                           *)
IncarnationNamesConfig == restarts = 0 => \A m \in Monitors : SameConfig(m)

(* The same with no regard to restarts, as SaveMonitor's comment has it: a *)
(* recreated id continues past the deleted incarnation.                    *)
RecreatedContinues == \A m \in Monitors : SameConfig(m)

(* What the store enables is watched and nothing else is: when no change   *)
(* is under way, none overlapped another and none failed since the process *)
(* started, the schedulers are those of the stored, enabled monitors with  *)
(* their current configuration and token.                                  *)
WatchedAsStored ==
    clean /\ ~Busy /\ ~monStopped => \A m \in Monitors :
        LET want == IF monFile[m] # None /\ monFile[m].on THEN {monFile[m]} ELSE {}
            has == {task[t].cfg : t \in {k \in Tasks : /\ task[k] # None /\ task[k].m = m
                                                      /\ task[k].live /\ task[k].by # "ping"}}
        IN  boot[m] = None =>
                /\ has = want
                /\ pushEntry[m] # None => {pushEntry[m]} = want

(* Both: the schedulers follow the store, the incidents the schedulers.    *)
WatchedRightly == OpenIsWatched /\ WatchedAsStored
=============================================================================
