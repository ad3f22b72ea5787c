--------------------------- MODULE Watching_proofs ---------------------------
(***************************************************************************)
(* Proofs about what watches the fleet and tells the owner: one section    *)
(* for each component with the inductive invariant it needs, the monitor   *)
(* runner first (one configuration per incarnation, and schedulers that    *)
(* follow the store), and theorems about all of them together at the end.  *)
(***************************************************************************)
EXTENDS Watching, TLAPS

-----------------------------------------------------------------------------
(* The monitor runner.                                                     *)
-----------------------------------------------------------------------------
(* Types                                                                   *)

LEMMA TornTyped ==
    ASSUME MonitorTypeOK, NEW m \in Monitors
    PROVE  Torn(m) \in [Tasks -> Task \cup {None}]
  <1> DEFINE live == FALSE
  <1>1. live \in BOOLEAN
    OBVIOUS
  <1>2. \A k \in Task : [k EXCEPT !.live = live] \in Task
    <2> HIDE DEF live
    <2> QED BY <1>1 DEF Task
  <1> HIDE DEF live
  <1>3. Torn(m) = [t \in Tasks |->
            IF task[t] = None \/ task[t].m # m THEN task[t]
            ELSE IF task[t].pc = "wait" THEN None ELSE [task[t] EXCEPT !.live = live]]
    BY Zenon DEF Torn, live
  <1> QED BY <1>2, <1>3 DEF MonitorTypeOK

(* A task that ends is a task or none.                                     *)
LEMMA EndedTyped ==
    ASSUME MonitorTypeOK, NEW t \in Tasks, task[t] # None
    PROVE  Ended(t) \in Task \cup {None}
  <1> DEFINE up == FALSE
  <1>1. up \in BOOLEAN
    OBVIOUS
  <1>2. \A k \in Task : [k EXCEPT !.pc = "wait", !.up = up] \in Task
    <2> HIDE DEF up
    <2> QED BY <1>1 DEF Task
  <1> HIDE DEF up
  <1>3. Ended(t) \in {None, [task[t] EXCEPT !.pc = "wait", !.up = up]}
    BY DEF Ended, up
  <1>4. task[t] \in Task
    BY DEF MonitorTypeOK
  <1>5. [task[t] EXCEPT !.pc = "wait", !.up = up] \in Task
    BY <1>2, <1>4
  <1> QED BY <1>3, <1>5

(* What a step of one goroutine or ping may change.                        *)
SameJob(a, b) == b.m = a.m /\ b.cfg = a.cfg /\ b.live = a.live /\ b.by = a.by

(* A task that ends keeps its job; while it is live, and the runner runs,  *)
(* only a ping ends for good.                                              *)
LEMMA EndedFacts ==
    ASSUME MonitorTypeOK, NEW t \in Tasks, task[t] # None
    PROVE  /\ Ended(t) = None \/ SameJob(task[t], Ended(t))
           /\ task[t].live /\ ~monStopped /\ task[t].by # "ping" => Ended(t) # None
  <1> DEFINE up == FALSE
  <1> HIDE DEF up
  <1>1. task[t] \in Task
    BY DEF MonitorTypeOK
  <1>2. SameJob(task[t], [task[t] EXCEPT !.pc = "wait", !.up = up])
    BY <1>1 DEF Task, SameJob
  <1>3. Ended(t) = IF task[t].live /\ ~monStopped /\ task[t].by # "ping"
                   THEN [task[t] EXCEPT !.pc = "wait", !.up = up] ELSE None
    BY DEF Ended, up
  <1>4. [task[t] EXCEPT !.pc = "wait", !.up = up] # None
    <2>1. up \in BOOLEAN
      BY DEF up
    <2> QED BY <1>1, <2>1, MonitorRecords DEF Task
  <1> QED BY <1>2, <1>3, <1>4

(* A torn-down task is none, or the same job as before.                    *)
LEMMA TornFacts ==
    ASSUME MonitorTypeOK, NEW m \in Monitors, NEW t \in Tasks
    PROVE  /\ Torn(m)[t] # None =>
                /\ task[t] # None
                /\ Torn(m)[t].m = task[t].m /\ Torn(m)[t].cfg = task[t].cfg
                /\ Torn(m)[t].by = task[t].by
                /\ Torn(m)[t].live => task[t].m # m
           /\ task[t] = None \/ task[t].m # m => Torn(m)[t] = task[t]
  <1> DEFINE live == FALSE
  <1> HIDE DEF live
  <1>1. task[t] \in Task \cup {None}
    BY DEF MonitorTypeOK
  <1>2. Torn(m)[t] = IF task[t] = None \/ task[t].m # m THEN task[t]
                     ELSE IF task[t].pc = "wait" THEN None ELSE [task[t] EXCEPT !.live = live]
    BY DEF Torn, live
  <1>3. task[t] # None =>
          LET k == [task[t] EXCEPT !.live = live]
          IN  k.m = task[t].m /\ k.cfg = task[t].cfg /\ k.by = task[t].by /\ k.live = live
    BY <1>1 DEF Task
  <1>4. live = FALSE
    BY DEF live
  <1> QED BY <1>2, <1>3, <1>4

(* A step of a goroutine or a ping, and what it does to its monitor.       *)
LEMMA TaskStepTyped ==
    ASSUME MonitorTypeOK, NEW t \in Tasks, TaskStep(t)
    PROVE  MonitorTypeOK'
  <1> USE DEF MonitorTypeOK
  <1>0. task[t] \in Task \cup {None}
    OBVIOUS
  <1>1. CASE Fire(t)
    <2>1. task' \in [Tasks -> Task \cup {None}]
      BY <1>0, <1>1 DEF Fire, Is, Move, Task
    <2> QED BY <1>1, <2>1 DEF Fire, TaskOnly, StoreKept, BootKept
  <1>2. ASSUME NEW up \in BOOLEAN, Judge(t, up) PROVE MonitorTypeOK'
    <2>1. task[t] \in Task /\ task[t] # None
      BY <1>0, <1>2 DEF Judge, Is
    <2>2. [[task[t] EXCEPT !.pc = "save"] EXCEPT !.up = up] \in Task
      BY <1>2, <2>1 DEF Task
    <2>3. task'[t] \in Task \cup {None}
      BY <1>2, <2>1, <2>2, EndedTyped DEF Judge
    <2>4. task' \in [Tasks -> Task \cup {None}]
      BY <1>2, <2>3 DEF Judge
    <2> QED BY <1>2, <2>4 DEF Judge, TaskOnly, StoreKept, BootKept
  <1>3. CASE SaveCheck(t)
    <2>1. task[t] \in Task
      BY <1>0, <1>3 DEF SaveCheck, Is
    <2>2. task' \in [Tasks -> Task \cup {None}]
      BY <1>3, <2>1, EndedTyped DEF SaveCheck, Is, Move, Finish, Task
    <2>3. upRows' \subseteq Monitors
      BY <1>3, <2>1 DEF SaveCheck, Task
    <2> QED BY <1>3, <2>2, <2>3 DEF SaveCheck, BootKept
  <1>4. CASE Publish(t)
    <2>1. task[t] \in Task
      BY <1>0, <1>4 DEF Publish, Is
    <2>2. task' \in [Tasks -> Task \cup {None}]
      BY <1>4, <2>1, EndedTyped DEF Publish, Is, Move, Finish, Task
    <2>3. down' \subseteq Monitors
      BY <1>4, <2>1 DEF Publish, Task
    <2> QED BY <1>4, <2>2, <2>3 DEF Publish, StoreKept, BootKept
  <1>5. CASE MoveDeadline(t)
    <2>1. task[t] \in Task /\ task[t].m \in Monitors
      BY <1>0, <1>5 DEF MoveDeadline, Is, Task
    <2>2. task' \in [Tasks -> Task \cup {None}]
      BY <1>5, <2>1, EndedTyped DEF MoveDeadline, Is, Finish
    <2>3. lastPing' \in [Monitors -> {None, "fresh", "late"}]
      BY <1>5, <2>1 DEF MoveDeadline
    <2> QED BY <1>5, <2>2, <2>3 DEF MoveDeadline, StoreKept, BootKept
  <1>6. ASSUME NEW m \in Monitors, NEW up \in BOOLEAN, Ping(t, m, up) PROVE MonitorTypeOK'
    <2> DEFINE live == TRUE
    <2>1. live \in BOOLEAN
      OBVIOUS
    <2>2. task' = [task EXCEPT ![t] = [m |-> m, cfg |-> pushEntry[m], live |-> live,
                                       by |-> "ping", pc |-> "judged", up |-> up]]
      BY <1>6 DEF Ping
    <2> HIDE DEF live
    <2>3. [m |-> m, cfg |-> pushEntry[m], live |-> live, by |-> "ping", pc |-> "judged", up |-> up]
            \in Task
      BY <1>6, <2>1 DEF Ping, Task
    <2>4. task' \in [Tasks -> Task \cup {None}]
      BY <2>2, <2>3
    <2> QED BY <1>6, <2>4 DEF Ping, TaskOnly, StoreKept, BootKept
  <1> QED BY <1>1, <1>2, <1>3, <1>4, <1>5, <1>6 DEF TaskStep

(* What such a step leaves alone, and what becomes of its job.             *)
JobStep(t) ==
    /\ UNCHANGED <<monFile, incClock, pushEntry, request, monStopped, boot, restarts, clean>>
    /\ \A k \in Tasks : k # t => task'[k] = task[k]
    /\ task[t] # None =>
         /\ task'[t] = None \/ SameJob(task[t], task'[t])
         /\ task[t].live /\ ~monStopped /\ task[t].by # "ping" => task'[t] # None
         /\ \A m \in down' \ down : m = task[t].m /\ task[t].live
    /\ task[t] = None =>
         /\ task'[t] # None /\ task'[t].by = "ping" /\ down' = down
         /\ task'[t].m \in Monitors /\ pushEntry[task'[t].m] # None
         /\ task'[t].cfg = pushEntry[task'[t].m]

(* A task's own step keeps every job's name and configuration.             *)
LEMMA TaskStepFacts ==
    ASSUME MonitorTypeOK, NEW t \in Tasks, TaskStep(t)
    PROVE  JobStep(t)
  <1> USE DEF TaskOnly, StoreKept, BootKept
  <1>0. task[t] \in Task \cup {None} /\ task \in [Tasks -> Task \cup {None}]
    BY DEF MonitorTypeOK
  <1>1. ASSUME NEW pc \in {"judged", "publish", "accepted"}, task[t] # None, Move(t, pc)
        PROVE  /\ SameJob(task[t], task'[t]) /\ task'[t] # None
               /\ \A k \in Tasks : k # t => task'[k] = task[k]
    <2>1. /\ task'[t] = [task[t] EXCEPT !.pc = pc] /\ task[t] \in Task
          /\ \A k \in Tasks : k # t => task'[k] = task[k]
      BY <1>0, <1>1 DEF Move
    <2>2. [task[t] EXCEPT !.pc = pc] \in Task
      BY <2>1 DEF Task
    <2>3. task'[t] # None
      BY <2>1, <2>2, MonitorRecords
    <2> QED BY <2>1, <2>3 DEF SameJob, Task
  <1>2. ASSUME task[t] # None, Finish(t)
        PROVE  /\ task'[t] = None \/ SameJob(task[t], task'[t])
               /\ task[t].live /\ ~monStopped /\ task[t].by # "ping" => task'[t] # None
               /\ \A k \in Tasks : k # t => task'[k] = task[k]
    BY <1>0, <1>2, EndedFacts DEF Finish
  <1>3. CASE Fire(t)
    BY <1>1, <1>3 DEF Fire, Is, JobStep
  <1>4. ASSUME NEW up \in BOOLEAN, Judge(t, up) PROVE JobStep(t)
    <2>1. task[t] # None /\ task[t] \in Task
      BY <1>0, <1>4 DEF Judge, Is
    <2>2. CASE task[t].live
      <3>1. /\ task'[t] = [[task[t] EXCEPT !.pc = "save"] EXCEPT !.up = up]
            /\ \A k \in Tasks : k # t => task'[k] = task[k]
        BY <1>0, <1>4, <2>2 DEF Judge
      <3>2. task'[t] \in Task /\ SameJob(task[t], task'[t])
        BY <2>1, <3>1 DEF Task, SameJob
      <3> QED BY <1>4, <2>1, <3>1, <3>2, MonitorRecords DEF Judge, JobStep
    <2>3. CASE ~task[t].live
      <3>1. Finish(t)
        BY <1>4, <2>3 DEF Judge, Finish
      <3> QED BY <1>2, <1>4, <2>1, <3>1 DEF Judge, JobStep
    <2> QED BY <2>2, <2>3
  <1>5. CASE SaveCheck(t)
    BY <1>1, <1>2, <1>5 DEF SaveCheck, Is, JobStep
  <1>6. CASE Publish(t)
    <2>1. task[t] # None /\ (Move(t, "accepted") \/ Finish(t))
          /\ \A m \in down' \ down : m = task[t].m /\ task[t].live
      BY <1>6 DEF Publish, Is
    <2> QED BY <1>1, <1>2, <1>6, <2>1 DEF Publish, JobStep
  <1>7. CASE MoveDeadline(t)
    BY <1>2, <1>7 DEF MoveDeadline, Is, JobStep
  <1>8. ASSUME NEW m \in Monitors, NEW up \in BOOLEAN, Ping(t, m, up) PROVE JobStep(t)
    <2>1. task'[t] = [m |-> m, cfg |-> pushEntry[m], live |-> TRUE,
                      by |-> "ping", pc |-> "judged", up |-> up]
      BY <1>0, <1>8 DEF Ping
    <2>2. task'[t] \in Task \cup {None}
      BY <1>8, TaskStepTyped DEF TaskStep, MonitorTypeOK
    <2>3. task'[t].m = m /\ task'[t].cfg = pushEntry[m] /\ task'[t].by = "ping"
      BY <2>1
    <2>4. task'[t] # None
      <3> DEFINE live == TRUE
      <3>1. live \in BOOLEAN
        OBVIOUS
      <3>2. task'[t] = [m |-> m, cfg |-> pushEntry[m], live |-> live,
                        by |-> "ping", pc |-> "judged", up |-> up]
        BY <2>1
      <3> HIDE DEF live
      <3>3. task'[t] \in Task
        BY <1>8, <3>1, <3>2 DEF Ping, Task, MonitorTypeOK
      <3> QED BY <3>3, MonitorRecords
    <2> QED BY <1>0, <1>8, <2>3, <2>4 DEF Ping, JobStep
  <1> QED BY <1>3, <1>4, <1>5, <1>6, <1>7, <1>8 DEF TaskStep

(* A step of an open request keeps the types.                              *)
LEMMA RequestStepTyped ==
    ASSUME MonitorTypeOK, NEW r \in Requests, RequestStep(r)
    PROVE  MonitorTypeOK'
  <1> USE DEF MonitorTypeOK, StoreKept, RunnerKept, BootKept
  <1>0. request[r] \in Request /\ request[r] # None /\ request[r].m \in Monitors
        /\ request[r].cfg \in Config
    BY DEF RequestStep, ReloadStops, StartReads, StartRegisters, RemoveMonitor, SaveMonitor,
           DeleteMonitor, At, Request
  <1>1. CASE ReloadStops(r)
    <2>1. task' \in [Tasks -> Task \cup {None}]
      BY <1>0, <1>1, TornTyped DEF ReloadStops, Teardown
    <2>2. request' \in [Requests -> Request \cup {None}]
      BY <1>0, <1>1 DEF ReloadStops, Advance, Return, Request
    <2> QED BY <1>0, <1>1, <2>1, <2>2 DEF ReloadStops, Teardown, Retire
  <1>2. CASE StartReads(r)
    <2> DEFINE seen == request[r].m \in upRows
    <2>1. seen \in BOOLEAN
      OBVIOUS
    <2>2. Return(r) \/ request' = [request EXCEPT ![r].pc = "start", ![r].upSeen = seen]
      BY <1>2 DEF StartReads
    <2> HIDE DEF seen
    <2>3. [[request[r] EXCEPT !.pc = "start"] EXCEPT !.upSeen = seen] \in Request
      BY <1>0, <2>1 DEF Request
    <2>4. request' \in [Requests -> Request \cup {None}]
      BY <2>2, <2>3 DEF Return
    <2> QED BY <1>2, <2>4 DEF StartReads
  <1>3. ASSUME NEW t \in Tasks, StartRegisters(r, t) PROVE MonitorTypeOK'
    <2> DEFINE live == TRUE
               up == FALSE
               new == [m |-> request[r].m, cfg |-> request[r].cfg, live |-> live,
                       by |-> request[r].cfg.kind, pc |-> "wait", up |-> up]
    <2>1. live \in BOOLEAN /\ up \in BOOLEAN
      OBVIOUS
    <2>2. task' = task \/ task' = [Torn(request[r].m) EXCEPT ![t] = new]
      BY <1>3 DEF StartRegisters
    <2> HIDE DEF live, up
    <2>3. new \in Task
      BY <1>0, <2>1 DEF Task, Config
    <2> HIDE DEF new
    <2>4. task' \in [Tasks -> Task \cup {None}]
      BY <1>0, <2>2, <2>3, TornTyped
    <2>5. request' \in [Requests -> Request \cup {None}]
      BY <1>3 DEF StartRegisters, Return
    <2>6. pushEntry' \in [Monitors -> Config \cup {None}]
      BY <1>0, <1>3 DEF StartRegisters
    <2>7. lastPing' \in [Monitors -> {None, "fresh", "late"}]
      BY <1>0, <1>3 DEF StartRegisters
    <2> QED BY <1>3, <2>4, <2>5, <2>6, <2>7 DEF StartRegisters
  <1>4. CASE RemoveMonitor(r)
    <2>1. task' \in [Tasks -> Task \cup {None}]
      BY <1>0, <1>4, TornTyped DEF RemoveMonitor, Teardown
    <2>2. request' \in [Requests -> Request \cup {None}]
      BY <1>0, <1>4 DEF RemoveMonitor, Advance, Request
    <2> QED BY <1>0, <1>4, <2>1, <2>2 DEF RemoveMonitor, Teardown, Retire
  <1>5. CASE SaveMonitor(r)
    <2> DEFINE n == NextIncarnation(request[r].m)
               new == [request[r].cfg EXCEPT !.inc = n]
    <2>1. n \in Nat
      BY <1>0 DEF NextIncarnation, Config
    <2> HIDE DEF n
    <2>2. new \in Config /\ new.inc = n
      BY <1>0, <2>1 DEF Config
    <2>3. PICK f \in {monFile[request[r].m], new} : monFile' = [monFile EXCEPT ![request[r].m] = f]
      BY <1>0, <1>5 DEF SaveMonitor, n
    <2>a. /\ incClock' = new.inc
          /\ Return(r) \/ request' = [request EXCEPT ![r].pc = "stop", ![r].cfg = new]
          /\ clean' = clean \/ clean' = FALSE
      BY <1>5 DEF SaveMonitor, n
    <2> HIDE DEF new
    <2>4. [[request[r] EXCEPT !.pc = "stop"] EXCEPT !.cfg = new] \in Request
      BY <1>0, <2>2 DEF Request
    <2>5. request' \in [Requests -> Request \cup {None}]
      BY <2>a, <2>4 DEF Return
    <2>6. monFile' \in [Monitors -> Config \cup {None}]
      BY <1>0, <2>2, <2>3
    <2>7. incClock' \in Nat /\ clean' \in BOOLEAN
      BY <2>1, <2>2, <2>a
    <2> QED BY <1>5, <2>5, <2>6, <2>7 DEF SaveMonitor
  <1>6. CASE DeleteMonitor(r)
    BY <1>0, <1>6 DEF DeleteMonitor, Return
  <1> QED BY <1>1, <1>2, <1>3, <1>4, <1>5, <1>6 DEF RequestStep

(* A new request, whoever makes it.                                        *)
LEMMA OpenTyped ==
    ASSUME MonitorTypeOK, NEW r \in Requests, NEW m \in Monitors, NEW cfg \in Config,
           NEW pc \in {"save", "remove"}, Open(r, m, cfg, pc)
    PROVE  MonitorTypeOK' /\ request'[r] # None
  <1> DEFINE seen == FALSE
             new == [m |-> m, cfg |-> cfg, upSeen |-> seen, pc |-> pc]
  <1>1. seen \in BOOLEAN
    OBVIOUS
  <1>2. request' = [request EXCEPT ![r] = new]
    BY DEF Open
  <1> HIDE DEF seen
  <1>3. new \in Request
    BY <1>1 DEF Request
  <1> HIDE DEF new
  <1>4. clean' \in BOOLEAN
    BY DEF Open
  <1>5. UNCHANGED <<monFile, upRows, incClock, task, pushEntry, lastPing, down, monStopped, boot, restarts>>
    BY DEF Open, StoreKept, RunnerKept, BootKept
  <1> QED BY <1>2, <1>3, <1>4, <1>5, MonitorRecords DEF MonitorTypeOK

(* The forms in which a request is opened.                                 *)
LEMMA NewRequestIs ==
    ASSUME MonitorTypeOK, NEW r \in Requests, NEW m \in Monitors, NewRequest(r, m)
    PROVE  \/ \E cfg \in Config, pc \in {"save", "remove"} : Open(r, m, cfg, pc)
           \/ StartListed(r, m)
  <1>1. ASSUME NEW on \in BOOLEAN, NEW kind \in Kinds, NEW minted \in Tokens,
               PostMonitor(r, m, on, kind, minted)
        PROVE  \E cfg \in Config, pc \in {"save", "remove"} : Open(r, m, cfg, pc)
    <2>1. PICK token \in Tokens \cup {None} :
              Open(r, m, [inc |-> 0, on |-> on, kind |-> kind, token |-> token], "save")
      BY <1>1 DEF PostMonitor, MonitorTypeOK, Config
    <2>2. [inc |-> 0, on |-> on, kind |-> kind, token |-> token] \in Config
      BY MonitorConstants DEF Config
    <2> QED BY <2>1, <2>2
  <1> DEFINE off == FALSE
             set == TRUE
  <1>2. off \in BOOLEAN /\ set \in BOOLEAN
    OBVIOUS
  <1>3. CASE DeleteRequest(r, m)
    <2>1. Open(r, m, [inc |-> 0, on |-> off, kind |-> "probe", token |-> None], "remove")
      BY <1>3 DEF DeleteRequest
    <2> HIDE DEF off
    <2>2. [inc |-> 0, on |-> off, kind |-> "probe", token |-> None] \in Config
      BY <1>2 DEF Config
    <2> QED BY <2>1, <2>2
  <1>4. CASE SweepSaves(r, m)
    <2>1. \/ Open(r, m, [inc |-> 0, on |-> set, kind |-> "probe", token |-> None], "save")
          \/ monFile[m] # None /\ Open(r, m, monFile[m], "save")
      BY <1>4 DEF SweepSaves
    <2> HIDE DEF set
    <2>2. [inc |-> 0, on |-> set, kind |-> "probe", token |-> None] \in Config
      BY <1>2 DEF Config
    <2> QED BY <2>1, <2>2 DEF MonitorTypeOK
  <1> QED BY <1>1, <1>3, <1>4 DEF NewRequest

(* A start listed at boot is typed.                                        *)
LEMMA ListedTyped ==
    ASSUME MonitorTypeOK, NEW r \in Requests, NEW m \in Monitors, StartListed(r, m)
    PROVE  MonitorTypeOK' /\ request'[r] # None
  <1> DEFINE seen == FALSE
             new == [m |-> m, cfg |-> boot[m], upSeen |-> seen, pc |-> "read"]
  <1>1. seen \in BOOLEAN
    OBVIOUS
  <1>2. request' = [request EXCEPT ![r] = new]
    BY DEF StartListed
  <1> HIDE DEF seen
  <1>3. new \in Request
    BY <1>1 DEF Request, StartListed, MonitorTypeOK
  <1> HIDE DEF new
  <1>4. boot' \in [Monitors -> Config \cup {None}]
    BY DEF StartListed, MonitorTypeOK
  <1>5. UNCHANGED <<monFile, upRows, incClock, task, pushEntry, lastPing, down, monStopped, restarts, clean>>
    BY DEF StartListed, StoreKept, RunnerKept
  <1> QED BY <1>2, <1>3, <1>4, <1>5, MonitorRecords DEF MonitorTypeOK

(* Every step of the runner keeps the types.                               *)
LEMMA MonitorTyped ==
    ASSUME MonitorTypeOK, MonitorNext
    PROVE  MonitorTypeOK'
  <1>1. ASSUME NEW r \in Requests, NEW m \in Monitors, NewRequest(r, m) PROVE MonitorTypeOK'
    BY <1>1, NewRequestIs, OpenTyped, ListedTyped
  <1>2. ASSUME NEW m \in Monitors, PingLate(m) PROVE MonitorTypeOK'
    BY <1>2 DEF PingLate, StoreKept, BootKept, MonitorTypeOK
  <1>3. CASE StopMonitors
    BY <1>3 DEF StopMonitors, StoreKept, BootKept, MonitorTypeOK
  <1>4. CASE MonitorsRestart
    <2>1. /\ boot' \in [Monitors -> Config \cup {None}] /\ restarts' \in Nat /\ incClock' \in Nat
          /\ task' \in [Tasks -> Task \cup {None}] /\ request' \in [Requests -> Request \cup {None}]
          /\ pushEntry' \in [Monitors -> Config \cup {None}]
          /\ lastPing' \in [Monitors -> {None, "fresh", "late"}]
      BY <1>4 DEF MonitorsRestart, MonitorTypeOK
    <2>2. UNCHANGED <<monFile, upRows, down>> /\ monStopped' \in BOOLEAN /\ clean' \in BOOLEAN
      BY <1>4 DEF MonitorsRestart
    <2> QED BY <2>1, <2>2 DEF MonitorTypeOK
  <1> QED BY <1>1, <1>2, <1>3, <1>4, RequestStepTyped, TaskStepTyped DEF MonitorNext

-----------------------------------------------------------------------------
(* One configuration per incarnation.                                      *)

(* The configurations the store has numbered and something still holds.    *)
Numbered(r) == request[r] # None /\ request[r].pc \in {"stop", "read", "start"}

Holds(c) ==
    \/ \E m \in Monitors : monFile[m] = c \/ pushEntry[m] = c
    \/ \E t \in Tasks : task[t] # None /\ task[t].cfg = c
    \/ \E r \in Requests : Numbered(r) /\ request[r].cfg = c

KnownConfigs == {c \in Config : Holds(c)}

(* While the process counts, every number is below its clock and names one *)
(* configuration.                                                          *)
NumbersName == restarts = 0 =>
    /\ \A m \in Monitors : boot[m] = None
    /\ \A c \in KnownConfigs : c.inc <= incClock
    /\ \A c, d \in KnownConfigs : c.inc = d.inc => c = d

(* A save makes one new configuration, every other step none.              *)
LEMMA KnownStep ==
    ASSUME MonitorTypeOK, MonitorTypeOK', MonitorNext, restarts' = 0,
           \A m \in Monitors : boot[m] = None
    PROVE  /\ restarts = 0 /\ \A m \in Monitors : boot'[m] = None
           /\ \/ KnownConfigs' \subseteq KnownConfigs /\ incClock' = incClock
              \/ \E c \in Config : /\ KnownConfigs' \subseteq KnownConfigs \cup {c}
                                   /\ c.inc = incClock' /\ incClock' > incClock
  <1> USE DEF StoreKept, RunnerKept, BootKept
  <1>0. restarts \in Nat /\ KnownConfigs = {c \in Config : Holds(c)}
    BY DEF MonitorTypeOK, KnownConfigs
  <1>1. ASSUME NEW t \in Tasks, TaskStep(t)
        PROVE  KnownConfigs' \subseteq KnownConfigs /\ UNCHANGED <<incClock, restarts, boot>>
    <2>1. JobStep(t)
      BY <1>1, TaskStepFacts
    <2>2. \A k \in Tasks, c \in Config : task'[k] # None /\ task'[k].cfg = c => Holds(c)
      BY <2>1 DEF JobStep, SameJob, Holds
    <2> QED BY <2>1, <2>2 DEF JobStep, KnownConfigs, Holds, Numbered
  <1>2. ASSUME NEW r \in Requests, NEW m \in Monitors, NewRequest(r, m)
        PROVE  KnownConfigs' \subseteq KnownConfigs /\ UNCHANGED <<incClock, restarts, boot>>
    <2>1. PICK cfg \in Config, pc \in {"save", "remove"} : Open(r, m, cfg, pc)
      BY <1>2, NewRequestIs DEF StartListed
    <2>2. \A k \in Requests : Numbered(k)' => Numbered(k) /\ request'[k] = request[k]
      BY <2>1 DEF Open, Numbered, MonitorTypeOK
    <2>3. UNCHANGED <<monFile, pushEntry, task, incClock, restarts, boot>>
      BY <2>1 DEF Open
    <2> QED BY <2>2, <2>3 DEF KnownConfigs, Holds
  <1>3. ASSUME NEW r \in Requests, ReloadStops(r) \/ StartReads(r) \/ RemoveMonitor(r)
        PROVE  KnownConfigs' \subseteq KnownConfigs /\ UNCHANGED <<incClock, restarts, boot>>
    <2>1. UNCHANGED <<monFile, incClock, restarts, boot>>
      BY <1>3 DEF ReloadStops, StartReads, RemoveMonitor
    <2>2. \A k \in Requests : Numbered(k)' => Numbered(k) /\ request'[k].cfg = request[k].cfg
      BY <1>3 DEF ReloadStops, StartReads, RemoveMonitor, Numbered, At, Advance, Return,
                  MonitorTypeOK, Request
    <2>3. \A k \in Tasks : task'[k] # None => task[k] # None /\ task'[k].cfg = task[k].cfg
      BY <1>3, TornFacts DEF ReloadStops, StartReads, RemoveMonitor, Teardown, At, MonitorTypeOK, Request
    <2>4. \A m \in Monitors : pushEntry'[m] = pushEntry[m] \/ pushEntry'[m] = None
      BY <1>3 DEF ReloadStops, StartReads, RemoveMonitor, Teardown, MonitorTypeOK
    <2>5. None \notin Config
      BY MonitorRecords
    <2> QED BY <2>1, <2>2, <2>3, <2>4, <2>5 DEF KnownConfigs, Holds
  <1>4. ASSUME NEW r \in Requests, NEW t \in Tasks, StartRegisters(r, t)
        PROVE  KnownConfigs' \subseteq KnownConfigs /\ UNCHANGED <<incClock, restarts, boot>>
    <2>1. UNCHANGED <<monFile, incClock, restarts, boot>>
      BY <1>4 DEF StartRegisters
    <2>2. /\ \A k \in Requests : Numbered(k)' => Numbered(k) /\ request'[k].cfg = request[k].cfg
          /\ Numbered(r) /\ request[r].m \in Monitors /\ request[r].cfg \in Config
      BY <1>4 DEF StartRegisters, Numbered, At, Return, MonitorTypeOK, Request
    <2>3. \A k \in Tasks : task'[k] # None =>
             (task[k] # None /\ task'[k].cfg = task[k].cfg) \/ task'[k].cfg = request[r].cfg
      BY <1>4, <2>2, TornFacts, TornTyped DEF StartRegisters
    <2>4. \A m \in Monitors : pushEntry'[m] \in {pushEntry[m], request[r].cfg, None}
      BY <1>4 DEF StartRegisters, MonitorTypeOK
    <2>5. None \notin Config
      BY MonitorRecords
    <2> QED BY <2>1, <2>2, <2>3, <2>4, <2>5 DEF KnownConfigs, Holds
  <1>5. ASSUME NEW r \in Requests, DeleteMonitor(r)
        PROVE  KnownConfigs' \subseteq KnownConfigs /\ UNCHANGED <<incClock, restarts, boot>>
    <2>1. UNCHANGED <<pushEntry, task, incClock, restarts, boot>>
      BY <1>5 DEF DeleteMonitor
    <2>2. \A m \in Monitors : monFile'[m] = monFile[m] \/ monFile'[m] = None
      BY <1>5 DEF DeleteMonitor, MonitorTypeOK
    <2>3. \A k \in Requests : Numbered(k)' => Numbered(k) /\ request'[k].cfg = request[k].cfg
      BY <1>5 DEF DeleteMonitor, Numbered, Return, MonitorTypeOK
    <2>4. None \notin Config
      BY MonitorRecords
    <2> QED BY <2>1, <2>2, <2>3, <2>4 DEF KnownConfigs, Holds
  <1>6. ASSUME NEW r \in Requests, SaveMonitor(r)
        PROVE  /\ UNCHANGED <<restarts, boot>>
               /\ \E c \in Config : /\ KnownConfigs' \subseteq KnownConfigs \cup {c}
                                    /\ c.inc = incClock' /\ incClock' > incClock
    <2>1. request[r] \in Request /\ request[r] # None
      BY <1>6 DEF SaveMonitor, At, MonitorTypeOK
    <2>a. /\ request[r].cfg \in Config /\ incClock \in Nat
          /\ monFile[request[r].m] # None => monFile[request[r].m].inc \in Nat
      BY <2>1 DEF MonitorTypeOK, Request, Config
    <2>2. PICK n \in Nat : n = NextIncarnation(request[r].m) /\ n > incClock
      BY <2>a DEF NextIncarnation
    <2>b. [request[r].cfg EXCEPT !.inc = n] \in Config /\ [request[r].cfg EXCEPT !.inc = n].inc = n
      BY <2>a DEF Config
    <2>3. PICK c \in Config : c = [request[r].cfg EXCEPT !.inc = n] /\ c.inc = n
      BY <2>b
    <2>4. /\ UNCHANGED <<restarts, boot, task, pushEntry>> /\ incClock' = c.inc
          /\ Return(r) \/ request' = [request EXCEPT ![r].pc = "stop", ![r].cfg = c]
      BY <1>6, <2>2, <2>3 DEF SaveMonitor
    <2>5. \A m \in Monitors : monFile'[m] \in {monFile[m], c}
      BY <1>6, <2>2, <2>3 DEF SaveMonitor, MonitorTypeOK
    <2>6. \A k \in Requests : Numbered(k)' =>
              request'[k].cfg = c \/ (Numbered(k) /\ request'[k].cfg = request[k].cfg)
      BY <2>4, <2>1 DEF Numbered, Return, MonitorTypeOK, Request
    <2>7. KnownConfigs' \subseteq KnownConfigs \cup {c}
      BY <2>4, <2>5, <2>6 DEF KnownConfigs, Holds
    <2> QED BY <2>2, <2>3, <2>4, <2>7
  <1>7. CASE StopMonitors \/ \E m \in Monitors : PingLate(m)
    <2>1. UNCHANGED <<monFile, pushEntry, request, incClock, restarts, boot>>
      BY <1>7 DEF StopMonitors, PingLate
    <2>2. \A k \in Tasks : task'[k] # None => task'[k] = task[k]
      BY <1>7 DEF StopMonitors, PingLate
    <2> QED BY <2>1, <2>2 DEF KnownConfigs, Holds, Numbered
  <1>8. ~MonitorsRestart
    BY <1>0 DEF MonitorsRestart
  <1> QED BY <1>1, <1>2, <1>3, <1>4, <1>5, <1>6, <1>7, <1>8 DEF MonitorNext, RequestStep

(* Only a restart counts as one.                                           *)
LEMMA RestartsStep ==
    ASSUME MonitorTypeOK, MonitorNext
    PROVE  restarts' = restarts \/ MonitorsRestart
  <1>1. ASSUME NEW t \in Tasks, TaskStep(t) PROVE restarts' = restarts
    BY <1>1, TaskStepFacts DEF JobStep
  <1>2. ASSUME NEW r \in Requests, NEW m \in Monitors, NewRequest(r, m) PROVE restarts' = restarts
    BY <1>2, NewRequestIs DEF Open, StartListed, BootKept
  <1>3. ASSUME NEW r \in Requests, RequestStep(r) PROVE restarts' = restarts
    BY <1>3 DEF RequestStep, ReloadStops, StartReads, StartRegisters, RemoveMonitor, SaveMonitor,
       DeleteMonitor, BootKept
  <1>4. CASE StopMonitors \/ \E m \in Monitors : PingLate(m)
    BY <1>4 DEF StopMonitors, PingLate, BootKept
  <1> QED BY <1>1, <1>2, <1>3, <1>4 DEF MonitorNext

(* Incarnation numbers keep naming one configuration each.                 *)
LEMMA NumbersStep ==
    ASSUME MonitorTypeOK, MonitorTypeOK', NumbersName, MonitorNext
    PROVE  NumbersName'
  <1> SUFFICES ASSUME restarts' = 0 PROVE NumbersName'
    BY DEF NumbersName
  <1>1. restarts = 0
    <2>1. MonitorsRestart => restarts' = restarts + 1
      BY DEF MonitorsRestart
    <2>2. restarts \in Nat
      BY DEF MonitorTypeOK
    <2> QED BY <2>1, <2>2, RestartsStep
  <1>2. /\ \A m \in Monitors : boot[m] = None
        /\ \A c \in KnownConfigs : c \in Config /\ c.inc \in Nat /\ c.inc <= incClock
        /\ \A c, d \in KnownConfigs : c.inc = d.inc => c = d
        /\ incClock \in Nat /\ incClock' \in Nat
    BY <1>1 DEF NumbersName, MonitorTypeOK, KnownConfigs, Config
  <1>3. \A m \in Monitors : boot'[m] = None
    BY <1>2, KnownStep
  <1>4. CASE KnownConfigs' \subseteq KnownConfigs /\ incClock' = incClock
    BY <1>2, <1>3, <1>4 DEF NumbersName
  <1>5. ASSUME NEW c \in Config, KnownConfigs' \subseteq KnownConfigs \cup {c}, c.inc = incClock', incClock' > incClock
        PROVE  NumbersName'
    BY <1>2, <1>3, <1>5 DEF NumbersName
  <1> QED BY <1>2, <1>4, <1>5, KnownStep

(* So within one process an incarnation number names a configuration.      *)
LEMMA NumbersMean ==
    ASSUME MonitorTypeOK, NumbersName
    PROVE  IncarnationNamesConfig
  <1> SUFFICES ASSUME restarts = 0, NEW m \in Monitors, monFile[m] # None,
                      NEW t \in Tasks, task[t] # None, task[t].cfg.inc = monFile[m].inc
               PROVE  task[t].cfg = monFile[m]
    BY DEF IncarnationNamesConfig, SameConfig
  <1>1. task[t].cfg \in KnownConfigs /\ monFile[m] \in KnownConfigs
    BY DEF KnownConfigs, Holds, MonitorTypeOK, Task
  <1> QED BY <1>1 DEF NumbersName

-----------------------------------------------------------------------------
(* Schedulers and incidents.                                               *)

(* A scheduler of m that was not torn down.                                *)
Works(t, m) == task[t] # None /\ task[t].m = m /\ task[t].live /\ task[t].by # "ping"

(* While the runner is not stopped, the set of push tokens and the pings   *)
(* that were accepted by it have a scheduler.                              *)
PushIsScheduled == ~monStopped => \A m \in Monitors :
    \/ \E t \in Tasks : Works(t, m)
    \/ pushEntry[m] = None /\ \A t \in Tasks : task[t] = None \/ task[t].m # m \/ ~task[t].live
(* A monitor is scheduled as its file says.                                *)
AsStored(m) ==
    /\ \A t \in Tasks : Works(t, m) =>
          monFile[m] # None /\ monFile[m].on /\ task[t].cfg = monFile[m]
    /\ monFile[m] # None /\ monFile[m].on => \E t \in Tasks : Works(t, m)
    /\ pushEntry[m] # None => monFile[m] # None /\ monFile[m].on /\ pushEntry[m] = monFile[m]

Unscheduled(m) == pushEntry[m] = None /\ \A t \in Tasks : ~Works(t, m)

(* The one change that is under way, and what it has done so far.          *)
ChangeOK(r) ==
    LET q == request[r]
    IN  q # None =>
          /\ boot[q.m] = None
          /\ q.pc \notin {"read", "start"} => \A m \in Monitors : boot[m] = None
          /\ q.pc \in {"stop", "read", "start"} => monFile[q.m] = q.cfg
          /\ q.pc \in {"read", "start"} => q.cfg.on
          /\ q.pc \in {"read", "start", "delete"} => Unscheduled(q.m)

Changing(m) == \E r \in Requests : request[r] # None /\ request[r].m = m
                                   /\ request[r].pc \notin {"save", "remove"}

(* Without overlapping changes, a monitor that is not listed for Start and *)
(* not being changed is scheduled as its file says.                        *)
StoreFollowed == clean /\ ~monStopped =>
    /\ \A r, s \in Requests : request[r] # None /\ request[s] # None => r = s
    /\ \A r \in Requests : ChangeOK(r)
    /\ \A m \in Monitors :
          /\ boot[m] # None => monFile[m] = boot[m] /\ boot[m].on /\ Unscheduled(m)
          /\ boot[m] = None => AsStored(m) \/ Changing(m)

(* The inductive invariant.                                                *)
MonitorInv == MonitorTypeOK /\ NumbersName /\ PushIsScheduled /\ OpenIsWatched /\ StoreFollowed
-----------------------------------------------------------------------------
(* What a request does to the schedulers of its monitor and of the others. *)

Spared(n) ==
    /\ pushEntry'[n] = pushEntry[n]
    /\ \A t \in Tasks : \/ task'[t] = task[t]
                        \/ (task[t] = None \/ task[t].m # n) /\ (task'[t] = None \/ task'[t].m # n)

Cleared(n) ==
    /\ pushEntry'[n] = None
    /\ \A t \in Tasks : task'[t] = None \/ task'[t].m # n \/ ~task'[t].live

Begun(n, cfg) ==
    /\ \E t \in Tasks : Works(t, n)'
    /\ \A t \in Tasks : Works(t, n)' => task'[t].cfg = cfg
    /\ pushEntry'[n] \in {None, cfg}

(* A teardown clears its monitor and spares every other one.               *)
LEMMA TeardownEffect ==
    ASSUME MonitorTypeOK, NEW m \in Monitors, Teardown(m)
    PROVE  Cleared(m) /\ \A n \in Monitors : n # m => Spared(n)
  <1>1. task' = Torn(m) /\ pushEntry' = [pushEntry EXCEPT ![m] = None]
    BY DEF Teardown
  <1>2. Cleared(m)
    BY <1>1, TornFacts DEF Cleared, MonitorTypeOK
  <1>3. ASSUME NEW n \in Monitors, n # m PROVE Spared(n)
    BY <1>1, <1>3, TornFacts DEF Spared, MonitorTypeOK
  <1> QED BY <1>2, <1>3

(* A registration begins its monitor's schedule and spares the others.     *)
LEMMA RegisterEffect ==
    ASSUME MonitorTypeOK, NEW r \in Requests, NEW t \in Tasks, StartRegisters(r, t), ~monStopped,
           NEW m \in Monitors, m = request[r].m
    PROVE  Begun(m, request[r].cfg) /\ \A n \in Monitors : n # m => Spared(n)
  <1> DEFINE cfg == request[r].cfg
             live == TRUE
             new == [m |-> m, cfg |-> cfg, live |-> live, by |-> cfg.kind, pc |-> "wait", up |-> FALSE]
  <1>0. request[r] \in Request /\ cfg \in Config /\ cfg.kind \in {"probe", "push"}
    BY DEF StartRegisters, At, MonitorTypeOK, Request, Config
  <1>1. /\ task[t] = None /\ task' = [Torn(m) EXCEPT ![t] = new]
        /\ pushEntry' = [pushEntry EXCEPT ![m] = IF cfg.kind = "push" THEN cfg ELSE None]
    BY DEF StartRegisters
  <1>2. new.m = m /\ new.cfg = cfg /\ new.live = live /\ new.by = cfg.kind /\ new # None
    <2> DEFINE up == FALSE
    <2>1. live \in BOOLEAN /\ up \in BOOLEAN
      OBVIOUS
    <2>2. new = [m |-> m, cfg |-> cfg, live |-> live, by |-> cfg.kind, pc |-> "wait", up |-> up]
      OBVIOUS
    <2> HIDE DEF live, up
    <2>3. [m |-> m, cfg |-> cfg, live |-> live, by |-> cfg.kind, pc |-> "wait", up |-> up] \in Task
      BY <1>0, <2>1 DEF Task
    <2> QED BY <2>2, <2>3, MonitorRecords
  <1>3. live = TRUE
    OBVIOUS
  <1> HIDE DEF new, live
  <1>4. task'[t] = new /\ \A k \in Tasks : k # t => task'[k] = Torn(m)[k]
    BY <1>1, TornTyped
  <1>5. Works(t, m)'
    BY <1>0, <1>2, <1>3, <1>4 DEF Works
  <1>6. ASSUME NEW k \in Tasks, Works(k, m)' PROVE task'[k].cfg = cfg
    <2>1. CASE k = t
      BY <1>2, <1>4, <2>1
    <2>2. CASE k # t
      BY <1>4, <1>6, <2>2, TornFacts DEF Works
    <2> QED BY <2>1, <2>2
  <1>7. pushEntry'[m] \in {None, cfg}
    BY <1>1 DEF MonitorTypeOK
  <1>8. ASSUME NEW n \in Monitors, n # m PROVE Spared(n)
    <2>1. ASSUME NEW k \in Tasks
          PROVE  \/ task'[k] = task[k]
                 \/ (task[k] = None \/ task[k].m # n) /\ (task'[k] = None \/ task'[k].m # n)
      BY <1>1, <1>2, <1>4, <1>8, TornFacts
    <2>2. pushEntry'[n] = pushEntry[n]
      BY <1>1, <1>8 DEF MonitorTypeOK
    <2> QED BY <2>1, <2>2 DEF Spared
  <1> QED BY <1>5, <1>6, <1>7, <1>8 DEF Begun

(* The schedulers of a monitor a step of a goroutine leaves as they were.  *)
LEMMA JobKeepsWorks ==
    ASSUME MonitorTypeOK, NEW t \in Tasks, JobStep(t), ~monStopped, NEW m \in Monitors, NEW k \in Tasks
    PROVE  /\ Works(k, m)' <=> Works(k, m)
           /\ Works(k, m) => task'[k].cfg = task[k].cfg
  <1>1. CASE k # t
    BY <1>1 DEF JobStep, Works
  <1>2. CASE k = t /\ task[t] # None
    BY <1>2 DEF JobStep, SameJob, Works
  <1>3. CASE k = t /\ task[t] = None
    BY <1>3 DEF JobStep, Works
  <1> QED BY <1>1, <1>2, <1>3

(* A push monitor keeps its entry in the scheduler.                        *)
LEMMA PushStep ==
    ASSUME MonitorTypeOK, PushIsScheduled, MonitorNext
    PROVE  PushIsScheduled'
  <1> USE DEF StoreKept, RunnerKept, BootKept
  <1>0. ASSUME NEW m \in Monitors, Spared(m), ~monStopped
        PROVE  \/ \E k \in Tasks : Works(k, m)'
               \/ /\ pushEntry'[m] = None
                  /\ \A k \in Tasks : task'[k] = None \/ task'[k].m # m \/ ~task'[k].live
    BY <1>0 DEF Spared, PushIsScheduled, Works
  <1>1. ASSUME NEW t \in Tasks, TaskStep(t) PROVE PushIsScheduled'
    <2>1. JobStep(t)
      BY <1>1, TaskStepFacts
    <2> SUFFICES ASSUME ~monStopped, NEW m \in Monitors, \A k \in Tasks : ~Works(k, m)'
                 PROVE  pushEntry'[m] = None
                        /\ \A k \in Tasks : task'[k] = None \/ task'[k].m # m \/ ~task'[k].live
      BY <2>1 DEF JobStep, PushIsScheduled
    <2>2. pushEntry[m] = None /\ \A k \in Tasks : task[k] = None \/ task[k].m # m \/ ~task[k].live
      BY <2>1, JobKeepsWorks DEF PushIsScheduled
    <2> QED BY <2>1, <2>2 DEF JobStep, SameJob
  <1>2. ASSUME NEW r \in Requests, NEW m \in Monitors, m = request[r].m,
               ReloadStops(r) \/ RemoveMonitor(r)
        PROVE  PushIsScheduled'
    <2>1. Cleared(m) /\ \A n \in Monitors : n # m => Spared(n)
      BY <1>2, TeardownEffect DEF ReloadStops, RemoveMonitor
    <2>2. monStopped' = monStopped
      BY <1>2 DEF ReloadStops, RemoveMonitor
    <2> QED BY <1>0, <2>1, <2>2 DEF PushIsScheduled, Cleared
  <1>3. ASSUME NEW r \in Requests, NEW t \in Tasks, StartRegisters(r, t) PROVE PushIsScheduled'
    <2>1. monStopped' = monStopped /\ request[r].m \in Monitors
      BY <1>3 DEF StartRegisters, At, MonitorTypeOK, Request
    <2>2. PICK m \in Monitors : m = request[r].m
      BY <2>1
    <2>3. CASE ~monStopped
      <3>1. Begun(m, request[r].cfg) /\ \A n \in Monitors : n # m => Spared(n)
        BY <1>3, <2>2, <2>3, RegisterEffect
      <3> QED BY <1>0, <2>1, <2>3, <3>1 DEF PushIsScheduled, Begun
    <2> QED BY <2>1, <2>3 DEF PushIsScheduled
  <1>4. CASE UNCHANGED <<task, pushEntry, monStopped>>
    BY <1>4 DEF PushIsScheduled, Works
  <1>5. ASSUME NEW r \in Requests, RequestStep(r) PROVE PushIsScheduled'
    <2>1. CASE ReloadStops(r) \/ RemoveMonitor(r)
      BY <1>2, <2>1 DEF ReloadStops, RemoveMonitor, At, MonitorTypeOK, Request
    <2>2. CASE StartReads(r) \/ SaveMonitor(r) \/ DeleteMonitor(r)
      BY <1>4, <2>2 DEF StartReads, SaveMonitor, DeleteMonitor
    <2> QED BY <1>3, <1>5, <2>1, <2>2 DEF RequestStep
  <1>6. ASSUME NEW r \in Requests, NEW m \in Monitors, NewRequest(r, m) PROVE PushIsScheduled'
    BY <1>4, <1>6, NewRequestIs DEF Open, StartListed
  <1>7. CASE StopMonitors \/ MonitorsRestart
    BY <1>7 DEF StopMonitors, MonitorsRestart, PushIsScheduled
  <1>8. ASSUME NEW m \in Monitors, PingLate(m) PROVE PushIsScheduled'
    BY <1>4, <1>8 DEF PingLate
  <1> QED BY <1>1, <1>5, <1>6, <1>7, <1>8 DEF MonitorNext

(* An open incident keeps its scheduler, or a reload that brings one.      *)
LEMMA OpenStep ==
    ASSUME MonitorTypeOK, MonitorTypeOK', PushIsScheduled, OpenIsWatched, MonitorNext
    PROVE  OpenIsWatched'
  <1> USE DEF StoreKept, RunnerKept, BootKept
  <1> DEFINE Safe(n) == (\E k \in Tasks : Works(k, n)) \/ Starting(n)
  <1> SUFFICES ASSUME restarts' = 0, ~monStopped', NEW n \in Monitors, n \in down'
               PROVE  Safe(n)'
    BY DEF OpenIsWatched, Scheduled, Works, MonitorTypeOK
  <1>1. ASSUME restarts = 0, ~monStopped, n \in down PROVE Safe(n)
    BY <1>1 DEF OpenIsWatched, Scheduled, Works
  <1>2. restarts = 0
    <2>1. MonitorsRestart => restarts' = restarts + 1
      BY DEF MonitorsRestart
    <2> QED BY <2>1, RestartsStep DEF MonitorTypeOK
  <1>3. ASSUME NEW t \in Tasks, TaskStep(t) PROVE Safe(n)'
    <2>1. JobStep(t)
      BY <1>3, TaskStepFacts
    <2>2. ~monStopped /\ request' = request
      BY <2>1 DEF JobStep
    <2>3. n \in down \/ \E k \in Tasks : Works(k, n)
      <3>1. SUFFICES ASSUME n \notin down PROVE \E k \in Tasks : Works(k, n)
        OBVIOUS
      <3>2. task[t] # None /\ n = task[t].m /\ task[t].live
        BY <2>1, <3>1 DEF JobStep
      <3> QED BY <2>2, <3>2 DEF PushIsScheduled
    <2>4. Starting(n) => Starting(n)'
      BY <2>2 DEF Starting
    <2>5. \A k \in Tasks : Works(k, n) => Works(k, n)'
      BY <2>1, <2>2, JobKeepsWorks
    <2> QED BY <1>1, <1>2, <2>2, <2>3, <2>4, <2>5
  <1>4. ASSUME NEW r \in Requests, request'[r] # None, request'[r].m = n,
               request'[r].pc \in {"read", "start"}
        PROVE  Safe(n)'
    BY <1>4 DEF Starting
  <1>5. ASSUME NEW r \in Requests, Starting(n), \A k \in Requests : k # r => request'[k] = request[k],
               request[r] # None => request[r].pc \notin {"read", "start"}
        PROVE  Safe(n)'
    <2>1. PICK k \in Requests : request[k] # None /\ request[k].m = n /\ request[k].pc \in {"read", "start"}
      BY <1>5 DEF Starting
    <2> QED BY <1>4, <1>5, <2>1
  <1>6. ASSUME Spared(n), NEW k \in Tasks, Works(k, n) PROVE Safe(n)'
    BY <1>6 DEF Spared, Works
  <1>7. ASSUME NEW r \in Requests, ReloadStops(r) \/ RemoveMonitor(r) PROVE Safe(n)'
    <2>1. PICK m \in Monitors : m = request[r].m
      BY <1>7 DEF ReloadStops, RemoveMonitor, At, MonitorTypeOK, Request
    <2>2. \A i \in Monitors : i # m => Spared(i)
      BY <1>7, <2>1, TeardownEffect DEF ReloadStops, RemoveMonitor
    <2>3. ~monStopped /\ n \in down /\ (\A k \in Requests : k # r => request'[k] = request[k])
          /\ request[r] # None /\ request[r].pc \notin {"read", "start"}
      BY <1>7 DEF ReloadStops, RemoveMonitor, At, Advance, Return, Retire, MonitorTypeOK
    <2>4. CASE n # m
      BY <1>1, <1>2, <1>5, <1>6, <2>2, <2>3, <2>4
    <2>5. CASE n = m
      <3>1. ReloadStops(r) /\ request[r].cfg.on
        BY <1>7, <2>1, <2>5 DEF ReloadStops, RemoveMonitor, Retire
      <3>2. request'[r] = [request[r] EXCEPT !.pc = "read"] /\ request[r] \in Request
        BY <2>3, <3>1 DEF ReloadStops, Advance, MonitorTypeOK
      <3>3. request'[r] \in Request /\ request'[r].m = n /\ request'[r].pc = "read"
        BY <2>1, <2>5, <3>2 DEF Request
      <3> QED BY <1>4, <3>3, MonitorRecords
    <2> QED BY <2>4, <2>5
  <1>8. ASSUME NEW r \in Requests, StartReads(r) PROVE Safe(n)'
    <2>1. ~monStopped /\ n \in down /\ UNCHANGED task
      BY <1>8 DEF StartReads
    <2> DEFINE seen == request[r].m \in upRows
    <2>2. request' = [request EXCEPT ![r].pc = "start", ![r].upSeen = seen] /\ request[r] \in Request
      BY <1>8, <2>1 DEF StartReads, At, MonitorTypeOK
    <2>a. seen \in BOOLEAN
      OBVIOUS
    <2> HIDE DEF seen
    <2>3. /\ request'[r] = [[request[r] EXCEPT !.pc = "start"] EXCEPT !.upSeen = seen]
          /\ \A k \in Requests : k # r => request'[k] = request[k]
      BY <2>2 DEF MonitorTypeOK
    <2>b. \A q \in Request : LET e == [[q EXCEPT !.pc = "start"] EXCEPT !.upSeen = seen]
                             IN  e \in Request /\ e.m = q.m /\ e.pc = "start"
      BY <2>a DEF Request
    <2>4. request'[r] \in Request /\ request'[r].m = request[r].m /\ request'[r].pc = "start"
      BY <2>2, <2>3, <2>b, Zenon
    <2>5. \A k \in Tasks : Works(k, n) => Works(k, n)'
      BY <2>1 DEF Works
    <2>6. ASSUME NEW k \in Requests, request[k] # None, request[k].m = n,
                 request[k].pc \in {"read", "start"}
          PROVE  Safe(n)'
      BY <1>4, <2>3, <2>4, <2>6, MonitorRecords
    <2> QED BY <1>1, <1>2, <2>1, <2>5, <2>6 DEF Starting
  <1>9. ASSUME NEW r \in Requests, NEW t \in Tasks, StartRegisters(r, t) PROVE Safe(n)'
    <2>1. ~monStopped /\ n \in down
      BY <1>9 DEF StartRegisters
    <2>2. PICK m \in Monitors : m = request[r].m
      BY <1>9 DEF StartRegisters, At, MonitorTypeOK, Request
    <2>3. Begun(m, request[r].cfg) /\ \A i \in Monitors : i # m => Spared(i)
      BY <1>9, <2>1, <2>2, RegisterEffect
    <2>4. \A k \in Requests : k # r => request'[k] = request[k]
      BY <1>9 DEF StartRegisters, Return, MonitorTypeOK
    <2>5. CASE n = m
      BY <2>3, <2>5 DEF Begun
    <2>6. CASE n # m
      <3>1. ASSUME Starting(n) PROVE Safe(n)'
        <4>1. PICK k \in Requests : request[k] # None /\ request[k].m = n /\ request[k].pc \in {"read", "start"}
          BY <3>1 DEF Starting
        <4> QED BY <1>4, <2>2, <2>4, <2>6, <4>1
      <3> QED BY <1>1, <1>2, <1>6, <2>1, <2>3, <2>6, <3>1
    <2> QED BY <2>5, <2>6
  <1>10. ASSUME NEW r \in Requests, UNCHANGED <<task, down, monStopped>>,
               \A k \in Requests : k # r => request'[k] = request[k],
               request[r] # None => request[r].pc \notin {"read", "start"}
        PROVE  Safe(n)'
    <2>1. \A k \in Tasks : Works(k, n) => Works(k, n)'
      BY <1>10 DEF Works
    <2> QED BY <1>1, <1>2, <1>5, <1>10, <2>1
  <1>11. ASSUME NEW r \in Requests, SaveMonitor(r) \/ DeleteMonitor(r) PROVE Safe(n)'
    BY <1>10, <1>11 DEF SaveMonitor, DeleteMonitor, At, Return, MonitorTypeOK
  <1>12. ASSUME NEW r \in Requests, NEW m \in Monitors, NewRequest(r, m) PROVE Safe(n)'
    BY <1>10, <1>12, NewRequestIs DEF Open, StartListed, Busy, MonitorTypeOK
  <1>13. ASSUME NEW m \in Monitors, PingLate(m) PROVE Safe(n)'
    BY <1>1, <1>2, <1>13 DEF PingLate, Works, Starting
  <1>14. ~StopMonitors /\ ~MonitorsRestart
    <2>1. MonitorsRestart => restarts' = restarts + 1
      BY DEF MonitorsRestart
    <2> QED BY <1>2, <2>1 DEF StopMonitors
  <1> QED BY <1>3, <1>7, <1>8, <1>9, <1>11, <1>12, <1>13, <1>14 DEF MonitorNext, RequestStep

-----------------------------------------------------------------------------
(* The schedulers follow the store.                                        *)

SameSchedule(n) ==
    /\ pushEntry'[n] = pushEntry[n]
    /\ \A k \in Tasks : /\ Works(k, n)' <=> Works(k, n)
                        /\ Works(k, n) => task'[k].cfg = task[k].cfg

(* A monitor that is spared keeps its schedule.                            *)
LEMMA SparedIsSame ==
    ASSUME NEW n \in Monitors, Spared(n)
    PROVE  SameSchedule(n)
  BY DEF Spared, SameSchedule, Works

(* What is said of a monitor's schedulers stays true while its file and    *)
(* they stay as they are.                                                  *)
LEMMA SameMeansSame ==
    ASSUME NEW n \in Monitors, SameSchedule(n), monFile'[n] = monFile[n]
    PROVE  /\ AsStored(n) => AsStored(n)'
           /\ Unscheduled(n) => Unscheduled(n)'
  <1>1. ASSUME Unscheduled(n) PROVE Unscheduled(n)'
    BY <1>1 DEF SameSchedule, Unscheduled
  <1>2. ASSUME AsStored(n) PROVE AsStored(n)'
    <2>1. ASSUME NEW t \in Tasks, Works(t, n)'
          PROVE  monFile'[n] # None /\ monFile'[n].on /\ task'[t].cfg = monFile'[n]
      BY <1>2, <2>1 DEF SameSchedule, AsStored
    <2>2. ASSUME monFile'[n] # None, monFile'[n].on PROVE \E t \in Tasks : Works(t, n)'
      BY <1>2, <2>2 DEF SameSchedule, AsStored
    <2>3. pushEntry'[n] # None => monFile'[n] # None /\ monFile'[n].on /\ pushEntry'[n] = monFile'[n]
      BY <1>2 DEF SameSchedule, AsStored
    <2> QED BY <2>1, <2>2, <2>3 DEF AsStored
  <1> QED BY <1>1, <1>2

(* A step of the request that is under way leaves the other monitors as    *)
(* they were, so only its own monitor is to be looked at.                  *)
LEMMA OneChange ==
    ASSUME MonitorTypeOK, StoreFollowed, clean, ~monStopped, NEW r \in Requests, request[r] # None,
           NEW m \in Monitors, m = request[r].m, boot' = boot,
           \A k \in Requests : k # r => request'[k] = request[k],
           \A n \in Monitors : n # m => SameSchedule(n) /\ monFile'[n] = monFile[n],
           ChangeOK(r)', AsStored(m)' \/ Changing(m)'
    PROVE  StoreFollowed'
  <1>1. /\ \A k \in Requests : k # r => request[k] = None /\ request'[k] = None
        /\ boot[m] = None
    BY DEF StoreFollowed, ChangeOK
  <1>2. \A k \in Requests : ChangeOK(k)'
    BY <1>1 DEF ChangeOK
  <1>3. ASSUME NEW n \in Monitors, n # m
        PROVE  /\ boot'[n] # None => monFile'[n] = boot'[n] /\ boot'[n].on /\ Unscheduled(n)'
               /\ boot'[n] = None => AsStored(n)'
    <2>1. ~Changing(n)
      BY <1>1, <1>3 DEF Changing
    <2>2. (AsStored(n) => AsStored(n)') /\ (Unscheduled(n) => Unscheduled(n)')
      BY <1>3, SameMeansSame
    <2> QED BY <1>3, <2>1, <2>2 DEF StoreFollowed
  <1> QED BY <1>1, <1>2, <1>3 DEF StoreFollowed

(* A request's step keeps the schedulers following the store.              *)
LEMMA FollowRequest ==
    ASSUME MonitorTypeOK, MonitorTypeOK', StoreFollowed, clean', NEW r \in Requests, RequestStep(r),
           ~monStopped
    PROVE  StoreFollowed'
  <1> USE DEF StoreKept, RunnerKept, BootKept
  <1>0. /\ request[r] \in Request /\ request[r] # None /\ request[r].m \in Monitors
        /\ request[r].cfg \in Config /\ boot' = boot
        /\ \A k \in Requests : k # r => request'[k] = request[k]
    <2>1. \A k \in Requests : k # r => request'[k] = request[k]
      BY DEF RequestStep, ReloadStops, StartReads, StartRegisters, RemoveMonitor, SaveMonitor,
             DeleteMonitor, Advance, Return, MonitorTypeOK
    <2> QED BY <2>1 DEF RequestStep, ReloadStops, StartReads, StartRegisters, RemoveMonitor, SaveMonitor,
                 DeleteMonitor, At, MonitorTypeOK, Request
  <1>1. PICK m \in Monitors : m = request[r].m
    BY <1>0
  <1>2. clean
    BY DEF RequestStep, ReloadStops, StartReads, StartRegisters, RemoveMonitor, SaveMonitor, DeleteMonitor
  <1>3. ChangeOK(r)
    BY <1>2 DEF StoreFollowed
  <1>4. ASSUME NEW pc \in {"read", "delete"}, Advance(r, pc)
        PROVE  request'[r] # None /\ request'[r].m = m /\ request'[r].cfg = request[r].cfg
               /\ request'[r].pc = pc
    <2>1. request'[r] = [request[r] EXCEPT !.pc = pc]
      BY <1>0, <1>4 DEF Advance, MonitorTypeOK
    <2>2. request'[r] \in Request /\ request'[r].m = m /\ request'[r].cfg = request[r].cfg
          /\ request'[r].pc = pc
      BY <1>0, <1>1, <2>1 DEF Request
    <2> QED BY <2>2, MonitorRecords
  <1>5. Return(r) => request'[r] = None
    BY DEF Return, MonitorTypeOK
  <1>6. Cleared(m) => Unscheduled(m)'
    BY DEF Cleared, Unscheduled, Works
  <1>7. CASE ReloadStops(r)
    <2>1. Unscheduled(m)' /\ \A n \in Monitors : n # m => SameSchedule(n)
      BY <1>1, <1>6, <1>7, TeardownEffect, SparedIsSame DEF ReloadStops
    <2>2. monFile' = monFile /\ boot[m] = None /\ monFile[m] = request[r].cfg /\ monFile[m] # None
          /\ \A n \in Monitors : boot[n] = None
      BY <1>0, <1>1, <1>3, <1>7, MonitorRecords DEF ReloadStops, ChangeOK, At
    <2>3. CASE request[r].cfg.on
      <3>1. Advance(r, "read")
        BY <1>7, <2>3 DEF ReloadStops
      <3>2. ChangeOK(r)' /\ Changing(m)'
        BY <1>0, <1>1, <1>4, <2>1, <2>2, <2>3, <3>1 DEF ChangeOK, Changing
      <3> QED BY <1>0, <1>1, <1>2, <2>1, <2>2, <3>2, OneChange
    <2>4. CASE ~request[r].cfg.on
      <3>1. request'[r] = None
        BY <1>5, <1>7, <2>4 DEF ReloadStops
      <3>2. ChangeOK(r)' /\ AsStored(m)'
        BY <2>1, <2>2, <2>4, <3>1 DEF ChangeOK, AsStored, Unscheduled
      <3> QED BY <1>0, <1>1, <1>2, <2>1, <2>2, <3>2, OneChange
    <2> QED BY <2>3, <2>4
  <1>8. CASE StartReads(r)
    <2> DEFINE seen == request[r].m \in upRows
    <2>1. /\ request' = [request EXCEPT ![r].pc = "start", ![r].upSeen = seen]
          /\ request[r].pc = "read" /\ UNCHANGED <<task, pushEntry, monFile>>
      BY <1>8 DEF StartReads, At
    <2>2. seen \in BOOLEAN
      OBVIOUS
    <2> HIDE DEF seen
    <2>3. \A q \in Request : LET e == [[q EXCEPT !.pc = "start"] EXCEPT !.upSeen = seen]
                             IN  e \in Request /\ e.m = q.m /\ e.pc = "start" /\ e.cfg = q.cfg
      BY <2>2 DEF Request
    <2>4. request'[r] = [[request[r] EXCEPT !.pc = "start"] EXCEPT !.upSeen = seen]
      BY <2>1 DEF MonitorTypeOK
    <2>5. request'[r] \in Request /\ request'[r].m = m /\ request'[r].pc = "start"
          /\ request'[r].cfg = request[r].cfg
      BY <1>0, <1>1, <2>3, <2>4, Zenon
    <2>6. \A n \in Monitors : SameSchedule(n)
      BY <2>1 DEF SameSchedule, Works
    <2>7. Unscheduled(m) /\ Unscheduled(m)'
      BY <1>0, <1>1, <1>3, <2>1, <2>6, SameMeansSame DEF ChangeOK
    <2>8. ChangeOK(r)' /\ Changing(m)'
      BY <1>0, <1>1, <1>3, <2>1, <2>5, <2>7, MonitorRecords DEF ChangeOK, Changing
    <2> QED BY <1>0, <1>1, <1>2, <2>1, <2>6, <2>8, OneChange
  <1>9. ASSUME NEW t \in Tasks, StartRegisters(r, t) PROVE StoreFollowed'
    <2>1. Begun(m, request[r].cfg) /\ \A n \in Monitors : n # m => SameSchedule(n)
      BY <1>1, <1>9, RegisterEffect, SparedIsSame
    <2>2. /\ monFile' = monFile /\ monFile[m] = request[r].cfg /\ monFile[m] # None /\ monFile[m].on
          /\ request'[r] = None
      BY <1>0, <1>1, <1>3, <1>5, <1>9, MonitorRecords DEF StartRegisters, ChangeOK, At
    <2>3. ChangeOK(r)' /\ AsStored(m)'
      BY <2>1, <2>2 DEF ChangeOK, AsStored, Begun
    <2> QED BY <1>0, <1>1, <1>2, <2>1, <2>2, <2>3, OneChange
  <1>10. CASE RemoveMonitor(r)
    <2>1. Unscheduled(m)' /\ \A n \in Monitors : n # m => SameSchedule(n)
      BY <1>1, <1>6, <1>10, TeardownEffect, SparedIsSame DEF RemoveMonitor
    <2>2. monFile' = monFile /\ Advance(r, "delete") /\ request[r].pc = "remove"
      BY <1>10 DEF RemoveMonitor, At
    <2>3. ChangeOK(r)' /\ Changing(m)'
      BY <1>0, <1>1, <1>3, <1>4, <2>1, <2>2 DEF ChangeOK, Changing
    <2> QED BY <1>0, <1>1, <1>2, <2>1, <2>2, <2>3, OneChange
  <1>11. CASE SaveMonitor(r)
    <2>1. PICK new : new = [request[r].cfg EXCEPT !.inc = NextIncarnation(m)]
      OBVIOUS
    <2>2. /\ monFile' = [monFile EXCEPT ![m] = new] /\ UNCHANGED <<task, pushEntry>>
          /\ request' = [request EXCEPT ![r].pc = "stop", ![r].cfg = new] /\ request[r].pc = "save"
      BY <1>1, <1>11, <2>1 DEF SaveMonitor, At
    <2>3. request'[r] = [[request[r] EXCEPT !.pc = "stop"] EXCEPT !.cfg = new]
      BY <2>2 DEF MonitorTypeOK
    <2>4. request'[r].m = m /\ request'[r].pc = "stop" /\ request'[r].cfg = new
      BY <1>0, <1>1, <2>3 DEF Request
    <2>5. request'[r] # None
      <3>1. NextIncarnation(m) \in Nat
        BY <1>0, <1>1 DEF NextIncarnation, MonitorTypeOK, Config
      <3>2. new \in Config
        BY <1>0, <2>1, <3>1 DEF Config
      <3>3. \A q \in Request : [[q EXCEPT !.pc = "stop"] EXCEPT !.cfg = new] \in Request
        BY <3>2 DEF Request
      <3> QED BY <1>0, <2>3, <3>3, MonitorRecords, Zenon
    <2>6. /\ \A n \in Monitors : SameSchedule(n) /\ (n # m => monFile'[n] = monFile[n])
          /\ monFile'[m] = new
      BY <2>2 DEF SameSchedule, Works, MonitorTypeOK
    <2>7. ChangeOK(r)' /\ Changing(m)'
      BY <1>0, <1>1, <1>3, <2>2, <2>4, <2>5, <2>6 DEF ChangeOK, Changing
    <2> QED BY <1>0, <1>1, <1>2, <2>6, <2>7, OneChange
  <1>12. CASE DeleteMonitor(r)
    <2>1. /\ monFile' = [monFile EXCEPT ![m] = None] /\ UNCHANGED <<task, pushEntry>>
          /\ request'[r] = None /\ request[r].pc = "delete"
      BY <1>1, <1>5, <1>12 DEF DeleteMonitor, At
    <2>2. /\ \A n \in Monitors : SameSchedule(n) /\ (n # m => monFile'[n] = monFile[n])
          /\ monFile'[m] = None
      BY <2>1 DEF SameSchedule, Works, MonitorTypeOK
    <2>3. Unscheduled(m)'
      BY <1>0, <1>1, <1>3, <2>1 DEF ChangeOK, Unscheduled, Works
    <2>4. ChangeOK(r)' /\ AsStored(m)'
      BY <2>1, <2>2, <2>3 DEF ChangeOK, AsStored, Unscheduled
    <2> QED BY <1>0, <1>1, <1>2, <2>2, <2>4, OneChange
  <1> QED BY <1>7, <1>8, <1>9, <1>10, <1>11, <1>12 DEF RequestStep

(* Every step of the runner keeps the schedulers following the store.      *)
LEMMA FollowStep ==
    ASSUME MonitorTypeOK, MonitorTypeOK', StoreFollowed, MonitorNext
    PROVE  StoreFollowed'
  <1> USE DEF StoreKept, RunnerKept, BootKept
  <1> SUFFICES ASSUME clean', ~monStopped' PROVE StoreFollowed'
    BY DEF StoreFollowed
  <1>1. ASSUME UNCHANGED <<monFile, request, boot>>, clean, ~monStopped,
               \A n \in Monitors : SameSchedule(n)
        PROVE  StoreFollowed'
    <2>1. ASSUME NEW n \in Monitors
          PROVE  (AsStored(n) => AsStored(n)') /\ (Unscheduled(n) => Unscheduled(n)')
      BY <1>1, SameMeansSame
    <2>2. ASSUME NEW r \in Requests PROVE ChangeOK(r)'
      <3>1. request[r] # None => request[r].m \in Monitors
        BY DEF MonitorTypeOK, Request
      <3> QED BY <1>1, <2>1, <3>1 DEF StoreFollowed, ChangeOK
    <2>3. \A n \in Monitors : Changing(n) => Changing(n)'
      BY <1>1 DEF Changing
    <2> QED BY <1>1, <2>1, <2>2, <2>3 DEF StoreFollowed
  <1>2. ASSUME NEW t \in Tasks, TaskStep(t) PROVE StoreFollowed'
    <2>1. JobStep(t)
      BY <1>2, TaskStepFacts
    <2>2. clean /\ ~monStopped /\ UNCHANGED <<monFile, request, boot, pushEntry>>
      BY <2>1 DEF JobStep
    <2>3. \A n \in Monitors : SameSchedule(n)
      BY <2>1, <2>2, JobKeepsWorks DEF SameSchedule
    <2> QED BY <1>1, <2>2, <2>3
  <1>3. ASSUME NEW m \in Monitors, PingLate(m) PROVE StoreFollowed'
    <2>1. clean /\ ~monStopped /\ UNCHANGED <<monFile, request, boot, pushEntry, task>>
      BY <1>3 DEF PingLate
    <2> QED BY <1>1, <2>1 DEF SameSchedule, Works
  <1>4. ASSUME NEW r \in Requests, RequestStep(r) PROVE StoreFollowed'
    <2>1. monStopped' = monStopped
      BY <1>4 DEF RequestStep, ReloadStops, StartReads, StartRegisters, RemoveMonitor, SaveMonitor,
         DeleteMonitor
    <2> QED BY <1>4, <2>1, FollowRequest
  <1>5. ASSUME NEW r \in Requests, NEW m \in Monitors, NEW cfg \in Config, NEW new,
               ~Busy, clean, ~monStopped, UNCHANGED <<monFile, task, pushEntry>>,
               request' = [request EXCEPT ![r] = new],
               \/ /\ \A k \in Monitors : boot[k] = None
                  /\ boot' = boot /\ new.pc \in {"save", "remove"} /\ new.m = m
               \/ /\ boot[m] = cfg /\ boot[m] # None /\ boot' = [boot EXCEPT ![m] = None]
                  /\ new # None /\ new.pc = "read" /\ new.m = m /\ new.cfg = cfg
        PROVE  StoreFollowed'
    <2>1. /\ \A k \in Requests : request[k] = None
          /\ request'[r] = new /\ \A k \in Requests : k # r => request'[k] = None
      BY <1>5 DEF Busy, MonitorTypeOK
    <2>2. \A n \in Monitors : SameSchedule(n)
      BY <1>5 DEF SameSchedule, Works
    <2>3. ASSUME NEW n \in Monitors
          PROVE  (AsStored(n) => AsStored(n)') /\ (Unscheduled(n) => Unscheduled(n)')
      BY <1>5, <2>2, SameMeansSame
    <2>4. ASSUME NEW n \in Monitors
          PROVE  /\ boot[n] # None => monFile[n] = boot[n] /\ boot[n].on /\ Unscheduled(n)
                 /\ boot[n] = None => AsStored(n)
      BY <1>5, <2>1 DEF StoreFollowed, Changing
    <2>5. CASE /\ \A k \in Monitors : boot[k] = None
               /\ boot' = boot /\ new.pc \in {"save", "remove"} /\ new.m = m
      <3>1. \A k \in Requests : ChangeOK(k)'
        BY <2>1, <2>5 DEF ChangeOK
      <3>2. ASSUME NEW n \in Monitors PROVE boot'[n] = None /\ AsStored(n)'
        BY <2>3, <2>4, <2>5
      <3>3. \A k, l \in Requests : request'[k] # None /\ request'[l] # None => k = l
        BY <2>1
      <3> QED BY <3>1, <3>2, <3>3 DEF StoreFollowed
    <2>6. CASE /\ boot[m] = cfg /\ boot[m] # None /\ boot' = [boot EXCEPT ![m] = None]
               /\ new # None /\ new.pc = "read" /\ new.m = m /\ new.cfg = cfg
      <3>1. boot'[m] = None /\ \A n \in Monitors : n # m => boot'[n] = boot[n]
        BY <2>6 DEF MonitorTypeOK
      <3>a. monFile[m] = boot[m] /\ boot[m].on /\ Unscheduled(m)'
        BY <2>3, <2>4, <2>6
      <3>b. ChangeOK(r)'
        BY <1>5, <2>1, <2>6, <3>1, <3>a DEF ChangeOK
      <3>2. \A k \in Requests : ChangeOK(k)'
        BY <2>1, <3>b DEF ChangeOK
      <3>3. Changing(m)'
        BY <2>1, <2>6 DEF Changing
      <3>4. ASSUME NEW n \in Monitors
            PROVE  /\ boot'[n] # None => monFile'[n] = boot'[n] /\ boot'[n].on /\ Unscheduled(n)'
                   /\ boot'[n] = None => AsStored(n)' \/ Changing(n)'
        <4>1. CASE n = m
          BY <3>1, <3>3, <4>1
        <4>2. CASE n # m
          BY <1>5, <2>3, <2>4, <3>1, <4>2
        <4> QED BY <4>1, <4>2
      <3>5. \A k, l \in Requests : request'[k] # None /\ request'[l] # None => k = l
        BY <2>1
      <3> QED BY <3>2, <3>4, <3>5 DEF StoreFollowed
    <2> QED BY <1>5, <2>5, <2>6
  <1>6. ASSUME NEW r \in Requests, NEW m \in Monitors, NewRequest(r, m) PROVE StoreFollowed'
    <2>1. ASSUME NEW cfg \in Config, NEW pc \in {"save", "remove"}, Open(r, m, cfg, pc)
          PROVE  StoreFollowed'
      <3>1. PICK new : new = [m |-> m, cfg |-> cfg, upSeen |-> FALSE, pc |-> pc]
        OBVIOUS
      <3>2. /\ ~Busy /\ clean /\ ~monStopped /\ UNCHANGED <<monFile, task, pushEntry, boot>>
            /\ request' = [request EXCEPT ![r] = new] /\ \A k \in Monitors : boot[k] = None
        BY <2>1, <3>1 DEF Open
      <3>3. new.m = m /\ new.pc = pc
        BY <3>1
      <3> QED BY <1>5, <3>2, <3>3
    <2>2. ASSUME StartListed(r, m) PROVE StoreFollowed'
      <3> DEFINE seen == FALSE
      <3>0. seen \in BOOLEAN /\ boot[m] # None /\ boot[m] \in Config
        BY <2>2 DEF StartListed, MonitorTypeOK
      <3>1. PICK new : new = [m |-> m, cfg |-> boot[m], upSeen |-> seen, pc |-> "read"]
        OBVIOUS
      <3>2. /\ ~Busy /\ clean /\ ~monStopped /\ UNCHANGED <<monFile, task, pushEntry>>
            /\ boot' = [boot EXCEPT ![m] = None] /\ request' = [request EXCEPT ![r] = new]
        BY <2>2, <3>1 DEF StartListed
      <3> HIDE DEF seen
      <3>3. new \in Request /\ new.m = m /\ new.pc = "read" /\ new.cfg = boot[m]
        BY <3>0, <3>1 DEF Request
      <3>4. new # None
        BY <3>3, MonitorRecords
      <3> QED BY <1>5, <3>0, <3>2, <3>3, <3>4
    <2> QED BY <1>6, <2>1, <2>2, NewRequestIs
  <1>7. CASE MonitorsRestart
    <2>1. \A r \in Requests : request'[r] = None
      BY <1>7 DEF MonitorsRestart
    <2>2. \A n \in Monitors : Unscheduled(n)'
      BY <1>7 DEF MonitorsRestart, Unscheduled, Works
    <2>3. ASSUME NEW n \in Monitors
          PROVE  /\ boot'[n] = IF monFile[n] # None /\ monFile[n].on THEN monFile[n] ELSE None
                 /\ monFile'[n] = monFile[n]
      BY <1>7 DEF MonitorsRestart
    <2>4. \A n \in Monitors : boot'[n] = None => AsStored(n)'
      BY <2>2, <2>3 DEF Unscheduled, AsStored
    <2> QED BY <2>1, <2>2, <2>3, <2>4 DEF StoreFollowed, ChangeOK
  <1>8. ~StopMonitors
    BY DEF StopMonitors
  <1> QED BY <1>2, <1>3, <1>4, <1>6, <1>7, <1>8 DEF MonitorNext

-----------------------------------------------------------------------------
(* The theorems.                                                           *)

(* The inductive invariant holds at the start and every step keeps it.     *)
THEOREM MonitorInvariance == MonitorSpec => []MonitorInv
  <1>1. MonitorInit => MonitorInv
    <2> SUFFICES ASSUME MonitorInit PROVE MonitorInv
      OBVIOUS
    <2>1. MonitorTypeOK
      BY DEF MonitorInit, MonitorTypeOK
    <2>2. NumbersName
      <3>1. KnownConfigs = {}
        BY MonitorRecords DEF MonitorInit, KnownConfigs, Holds, Numbered
      <3> QED BY <3>1 DEF MonitorInit, NumbersName
    <2>3. PushIsScheduled /\ OpenIsWatched
      BY DEF MonitorInit, PushIsScheduled, OpenIsWatched
    <2>4. StoreFollowed
      BY DEF MonitorInit, StoreFollowed, ChangeOK, AsStored, Works
    <2> QED BY <2>1, <2>2, <2>3, <2>4 DEF MonitorInv
  <1>2. MonitorInv /\ [MonitorNext]_monitorVars => MonitorInv'
    <2> SUFFICES ASSUME MonitorInv, [MonitorNext]_monitorVars PROVE MonitorInv'
      OBVIOUS
    <2>1. CASE MonitorNext
      <3>1. MonitorTypeOK'
        BY <2>1, MonitorTyped DEF MonitorInv
      <3> QED BY <2>1, <3>1, NumbersStep, PushStep, OpenStep, FollowStep DEF MonitorInv
    <2>2. CASE UNCHANGED monitorVars
      <3> USE <2>2 DEF monitorVars, MonitorInv
      <3>1. MonitorTypeOK'
        BY DEF MonitorTypeOK
      <3>2. NumbersName'
        BY DEF NumbersName, KnownConfigs, Holds, Numbered
      <3>3. PushIsScheduled'
        BY DEF PushIsScheduled, Works
      <3>4. OpenIsWatched'
        BY DEF OpenIsWatched, Scheduled, Starting
      <3>5. StoreFollowed'
        <4>1. \A n \in Monitors : (AsStored(n) => AsStored(n)') /\ (Changing(n) => Changing(n)')
                                 /\ (Unscheduled(n) => Unscheduled(n)')
          BY DEF AsStored, Unscheduled, Works, Changing
        <4>2. \A r \in Requests : ChangeOK(r) => ChangeOK(r)'
          <5>1. \A r \in Requests : request[r] # None => request[r].m \in Monitors
            BY DEF MonitorTypeOK, Request
          <5> QED BY <4>1, <5>1 DEF ChangeOK
        <4> QED BY <4>1, <4>2 DEF StoreFollowed
      <3> QED BY <3>1, <3>2, <3>3, <3>4, <3>5
    <2> QED BY <2>1, <2>2
  <1> QED BY <1>1, <1>2, PTL DEF MonitorSpec

(* An incarnation names one configuration: SaveCheck's comparison admits a *)
(* check only for the very configuration it ran under, across edits,       *)
(* deletes, recreations and failing saves (SaveMonitor, SaveCheck).        *)
THEOREM IncarnationsAreHonest == MonitorSpec => []IncarnationNamesConfig
  <1>1. MonitorInv => IncarnationNamesConfig
    BY NumbersMean DEF MonitorInv
  <1> QED BY <1>1, MonitorInvariance, PTL

(* The schedulers that follow the store are those WatchedAsStored asks for.*)
LEMMA FollowedIsWatched ==
    ASSUME MonitorTypeOK, StoreFollowed
    PROVE  WatchedAsStored
  <1> SUFFICES ASSUME clean, ~Busy, ~monStopped, NEW m \in Monitors, boot[m] = None
               PROVE  LET want == IF monFile[m] # None /\ monFile[m].on THEN {monFile[m]} ELSE {}
                          has == {task[t].cfg : t \in {k \in Tasks : /\ task[k] # None /\ task[k].m = m
                                                      /\ task[k].live /\ task[k].by # "ping"}}
                      IN  has = want /\ (pushEntry[m] # None => {pushEntry[m]} = want)
    BY DEF WatchedAsStored
  <1>1. AsStored(m)
    BY DEF StoreFollowed, Changing, Busy
  <1> QED BY <1>1 DEF AsStored, Works

(* What the store enables is watched and nothing else is, once changes do  *)
(* not overlap and none failed; and an open incident always has a          *)
(* scheduler, or a reload about to bring one (Reload, Remove, Start).      *)
THEOREM SchedulersFollow == MonitorSpec => []WatchedRightly
  <1>1. MonitorInv => WatchedRightly
    BY FollowedIsWatched DEF MonitorInv, WatchedRightly
  <1> QED BY <1>1, MonitorInvariance, PTL

-----------------------------------------------------------------------------
(* Server audits and their dismissed findings.                             *)

CleanupInv == CleanupTypeOK /\ DismissedStaysHidden

(* A new report, or none, takes what it names out of the wishes and of the *)
(* dismissals alike.                                                       *)
LEMMA AuditKeeps ==
    ASSUME CleanupInv, NEW s \in AuditServers, NEW report \in AuditReport \cup {None},
           NEW names \in SUBSET AuditServers, AuditEnds(s, report, names)
    PROVE  CleanupInv'
  <1> USE DEF CleanupInv, CleanupTypeOK
  <1>0. Merged(s, report) \in AuditRecord /\ Merged(s, report) # None
    <2>1. Merged(s, report) \in AuditRecord
      BY DEF Merged, AuditRecord
    <2> QED BY <2>1, CleanupRecords
  <1>1. CleanupTypeOK'
    BY <1>0 DEF AuditEnds, StillDismissed, AuditReport
  <1>2. ASSUME NEW t \in AuditServers, t # s
        PROVE  /\ t \notin excused' => wished'[t] \subseteq dismissed'[t]
               /\ dismissed'[t] # {} => records'[t] # None /\ records'[t].report # None
               /\ records'[t] # None /\ records'[t].report # None /\ records'[t].report.complete
                    => dismissed'[t] \subseteq records'[t].report.findings
    BY <1>2 DEF AuditEnds, DismissedStaysHidden, HasReport
  <1>3. /\ s \notin excused' => wished'[s] \subseteq dismissed'[s]
        /\ dismissed'[s] # {} => records'[s] # None /\ records'[s].report # None
        /\ records'[s] # None /\ records'[s].report # None /\ records'[s].report.complete
             => dismissed'[s] \subseteq records'[s].report.findings
    <2>1. /\ records'[s] = Merged(s, report)
          /\ dismissed'[s] = StillDismissed(s, Merged(s, report))
          /\ wished'[s] = IF report # None /\ report.complete THEN wished[s] \cap report.findings
                          ELSE wished[s]
          /\ excused \subseteq excused'
      BY DEF AuditEnds
    <2>2. CASE report # None
      <3>1. Merged(s, report).report = report
        BY <2>2 DEF Merged
      <3> QED BY <1>0, <2>1, <2>2, <3>1 DEF StillDismissed, DismissedStaysHidden
    <2>3. CASE report = None
      <3>1. Merged(s, report).report = IF records[s] # None THEN records[s].report ELSE None
        BY <2>3 DEF Merged
      <3> QED BY <1>0, <2>1, <2>3, <3>1 DEF StillDismissed, DismissedStaysHidden, HasReport
    <2> QED BY <2>2, <2>3
  <1>4. DismissedStaysHidden'
    BY <1>2, <1>3 DEF DismissedStaysHidden, HasReport
  <1> QED BY <1>1, <1>4

(* Every step of the audits keeps their invariant.                         *)
LEMMA CleanupStep == CleanupInv /\ [CleanupNext]_cleanupVars => CleanupInv'
  <1> SUFFICES ASSUME CleanupInv, [CleanupNext]_cleanupVars PROVE CleanupInv'
    OBVIOUS
  <1> USE DEF CleanupInv, CleanupTypeOK
  <1>1. ASSUME NEW s \in AuditServers, AuditReports(s) \/ AuditFails(s) PROVE CleanupInv'
    <2>1. PICK report \in AuditReport \cup {None}, names \in SUBSET AuditServers :
              AuditEnds(s, report, names)
      <3>1. CASE AuditReports(s)
        <4>1. PICK complete \in BOOLEAN, found \in SUBSET Findings,
                   names \in {{t \in AuditServers : machine[t] # None}, {}} :
                 AuditEnds(s, [by |-> audit[s], complete |-> complete, findings |-> found], names)
          BY <3>1 DEF AuditReports
        <4>2. [by |-> audit[s], complete |-> complete, findings |-> found] \in AuditReport
          BY <4>1 DEF AuditReport, AuditEnds
        <4> QED BY <4>1, <4>2
      <3>2. CASE AuditFails(s)
        BY <3>2 DEF AuditFails
      <3> QED BY <1>1, <3>1, <3>2
    <2> QED BY <2>1, AuditKeeps
  <1>2. ASSUME NEW s \in AuditServers, NEW f \in Findings, Dismiss(s, f) \/ Undismiss(s, f)
        PROVE  CleanupInv'
    BY <1>2 DEF Dismiss, Undismiss, DismissedStaysHidden, HasReport
  <1>3. ASSUME NEW s \in AuditServers, NEW m \in Machines \cup {None},
               QueueAudit(s) \/ ServerEdited(s, m)
        PROVE  CleanupInv'
    BY <1>3 DEF QueueAudit, ServerEdited, DismissedStaysHidden, HasReport
  <1>4. CASE CleanupRestart
    BY <1>4 DEF CleanupRestart, NoRecords, DismissedStaysHidden, HasReport
  <1>5. CASE UNCHANGED cleanupVars
    BY <1>5 DEF cleanupVars, DismissedStaysHidden, HasReport
  <1> QED BY <1>1, <1>2, <1>3, <1>4, <1>5 DEF CleanupNext

(* What was dismissed stays hidden over failed, partial and unreachable    *)
(* audits (onCleanupOperationFinished, applyServerAuditResult).            *)
THEOREM DismissalsStand == CleanupSpec => [](CleanupTypeOK /\ DismissedStaysHidden)
  <1>1. CleanupInit => CleanupInv
    BY DEF CleanupInit, CleanupInv, CleanupTypeOK, NoRecords, NothingDismissed, DismissedStaysHidden,
           HasReport
  <1>2. CleanupInv => CleanupTypeOK /\ DismissedStaysHidden
    BY DEF CleanupInv
  <1> QED BY <1>1, <1>2, CleanupStep, PTL DEF CleanupSpec

-----------------------------------------------------------------------------
(* The heartbeat receivers.                                                *)

(* What is pinged is configured, or about to be forgotten, or its result   *)
(* stays already, or the ping counts as late.                              *)
PingsAreExpected ==
    \A p \in pings : p[2] \in receivers \cup forgetting \cup broughtBack \/ p \in late

HeartbeatInv == HeartbeatTypeOK /\ PingsAreExpected /\ ForgottenStaysForgotten

(* The outcome of a forgotten receiver is gone until a ping that was under *)
(* way when it was forgotten ends; no ping that begins later brings it back*)
(* (Forget, Ping, Run, testHeartbeat).                                     *)
THEOREM OutcomesAreForgotten == HeartbeatSpec => [](HeartbeatTypeOK /\ ForgottenStaysForgotten)
  <1> USE DEF HeartbeatInv, HeartbeatTypeOK, PingsAreExpected, ForgottenStaysForgotten
  <1>1. HeartbeatInit => HeartbeatInv
    BY DEF HeartbeatInit
  <1>2. HeartbeatInv /\ [HeartbeatNext]_heartbeatVars => HeartbeatInv'
    <2> SUFFICES ASSUME HeartbeatInv, [HeartbeatNext]_heartbeatVars PROVE HeartbeatInv'
      OBVIOUS
    <2>1. ASSUME NEW h \in Receivers, SaveReceiver(h) \/ DeleteReceiver(h) \/ DeleteFails(h)
          PROVE  HeartbeatInv'
      BY <2>1 DEF SaveReceiver, DeleteReceiver, DeleteFails
    <2>2. ASSUME NEW h \in Receivers, ForgetReceiver(h) PROVE HeartbeatInv'
      BY <2>2 DEF ForgetReceiver, PingsOf
    <2>3. ASSUME NEW h \in Receivers, BeginTest(h) PROVE HeartbeatInv'
      BY <2>3 DEF BeginTest, PingKinds
    <2>4. ASSUME NEW h \in Receivers, PingEnds(h) PROVE HeartbeatInv'
      BY <2>4 DEF PingEnds, PingsOf
    <2>5. CASE BeginRound
      BY <2>5 DEF BeginRound, PingKinds
    <2>6. CASE HeartbeatsRestart \/ UNCHANGED heartbeatVars
      BY <2>6 DEF HeartbeatsRestart, heartbeatVars
    <2> QED BY <2>1, <2>2, <2>3, <2>4, <2>5, <2>6 DEF HeartbeatNext
  <1>3. HeartbeatInv => HeartbeatTypeOK /\ ForgottenStaysForgotten
    OBVIOUS
  <1> QED BY <1>1, <1>2, <1>3, PTL DEF HeartbeatSpec

-----------------------------------------------------------------------------
(* The link to Observe.                                                    *)

(* What is set on the app is in the record, or in the hands of the one call*)
(* that will record or unset it.  Overlapping calls count as loose.        *)
KeysAreHeld ==
    /\ applying # None /\ disabling # None => loose
    /\ applying # None /\ applying.minted = None => applying.set = {}
    /\ ~loose => envSet \subseteq
          IF disabling # None THEN (disabling.left \cup disabling.failed) \cap disabling.record
          ELSE IF applying # None THEN Named(optIn) \cup applying.set
          ELSE Named(optIn)

LinkInv == LinkTypeOK /\ KeysAreHeld

(* Every step of the link keeps its invariant.                             *)
LEMMA LinkStep == LinkInv /\ [LinkNext]_linkVars => LinkInv'
  <1> SUFFICES ASSUME LinkInv, [LinkNext]_linkVars PROVE LinkInv'
    OBVIOUS
  <1> USE LinkRecords DEF LinkInv, LinkTypeOK, OptIn
  <1>0. Named(optIn) \subseteq AppKeys /\ \A keys \in SUBSET AppKeys : Named(keys) = keys
    BY DEF Named
  <1>1. CASE Connect \/ Disconnect \/ (\E connection \in Instances \cup {None} : PutBack(connection))
             \/ (\E instance \in Instances : ObserveMoves(instance)) \/ UNCHANGED linkVars
    <2>1. UNCHANGED <<optIn, appsMade, applying, disabling, envSet, wedged, loose>>
      BY <1>1 DEF Connect, Disconnect, PutBack, ObserveMoves, LinkOnly, linkVars
    <2>2. KeysAreHeld'
      BY <2>1 DEF KeysAreHeld, Named
    <2>3. {answering', link'} \subseteq Instances \cup {None} /\ putBack' \subseteq Instances \cup {None}
          /\ observeFile' \in [link: Instances \cup {None}, optIn: OptIn]
      BY <1>1, <2>1 DEF Connect, Disconnect, PutBack, ObserveMoves, LinkOnly, Save, SaveOrNot, linkVars
    <2> QED BY <2>1, <2>2, <2>3
  <1>2. CASE BeginApply
    <2> DEFINE new == [fence |-> link, minted |-> None, set |-> {}]
    <2>1. new \in Apply /\ new.set = {}
      BY <1>2 DEF BeginApply, Apply
    <2>2. /\ applying' = new /\ loose' = (loose \/ disabling # None) /\ applying = None
          /\ UNCHANGED <<answering, link, optIn, appsMade, observeFile, putBack, disabling, envSet, wedged>>
      BY <1>2 DEF BeginApply, ApplyOnly, RecordKept
    <2> HIDE DEF new
    <2>3. KeysAreHeld'
      BY <2>1, <2>2 DEF KeysAreHeld, Named
    <2> QED BY <2>1, <2>2, <2>3
  <1>3. CASE Mint
    <2>1. /\ applying # None /\ applying \in Apply /\ applying.minted = None
          /\ applying' \in {[applying EXCEPT !.minted = answering], None}
          /\ UNCHANGED <<answering, link, optIn, appsMade, observeFile, putBack, disabling, envSet, wedged, loose>>
      BY <1>3 DEF Mint, ApplyOnly, RecordKept
    <2>2. applying' = None \/ (applying' \in Apply /\ applying'.set = applying.set)
      BY <2>1 DEF Apply
    <2>3. applying.set = {}
      BY <2>1 DEF KeysAreHeld
    <2>4. KeysAreHeld'
      BY <2>1, <2>2, <2>3 DEF KeysAreHeld, Named
    <2> QED BY <2>1, <2>2, <2>4
  <1>4. ASSUME NEW key \in AppKeys, SetKey(key) PROVE LinkInv'
    <2>1. /\ applying # None /\ applying \in Apply /\ applying.minted # None
          /\ envSet' = envSet \cup {key} /\ applying' = [applying EXCEPT !.set = @ \cup {key}]
          /\ UNCHANGED <<answering, link, optIn, appsMade, observeFile, putBack, disabling, wedged, loose>>
      BY <1>4 DEF SetKey, Setting, ApplyOnly, RecordKept
    <2>2. /\ applying' \in Apply /\ applying'.set = applying.set \cup {key}
          /\ applying'.minted = applying.minted
      BY <2>1 DEF Apply
    <2>3. KeysAreHeld'
      BY <2>1, <2>2 DEF KeysAreHeld, Named
    <2> QED BY <2>1, <2>2, <2>3
  <1>5. ASSUME NEW key \in AppKeys, SetFails(key) PROVE LinkInv'
    <2>1. KeysAreHeld'
      BY <1>5 DEF SetFails, KeysAreHeld
    <2> QED BY <1>5, <2>1 DEF SetFails, ApplyOnly, RecordKept
  <1>6. ASSUME optIn' \in OptIn, observeFile' \in {observeFile, [link |-> link', optIn |-> optIn']}, link' = link
        PROVE  observeFile' \in [link: Instances \cup {None}, optIn: OptIn]
    BY <1>6
  <1>7. CASE RecordOptIn
    <2>1. /\ optIn' = AppKeys /\ appsMade' = TRUE /\ applying' = None
          /\ loose' = (loose /\ (disabling # None \/ ~(envSet' \subseteq Named(optIn'))))
          /\ applying # None
          /\ UNCHANGED <<answering, link, putBack, disabling, envSet, wedged>>
      BY <1>7 DEF RecordOptIn, AllSet, Settled
    <2>2. KeysAreHeld'
      BY <1>0, <2>1 DEF KeysAreHeld, Named
    <2>3. observeFile' \in [link: Instances \cup {None}, optIn: OptIn]
      BY <1>6, <1>7, <2>1 DEF RecordOptIn, SaveOrNot
    <2>4. appsMade' \in BOOLEAN /\ loose' \in BOOLEAN
      BY <2>1
    <2> QED BY <2>1, <2>2, <2>3, <2>4
  <1>8. CASE RecordUnqueued
    <2>1. /\ applying' = None /\ applying # None
          /\ UNCHANGED <<answering, link, putBack, disabling, appsMade, envSet>>
      BY <1>8 DEF RecordUnqueued, AllSet
    <2>2. CASE appsMade
      <3>1. /\ optIn' = AppKeys /\ wedged' = wedged
            /\ loose' = (loose /\ (disabling # None \/ ~(envSet' \subseteq Named(optIn'))))
        BY <1>8, <2>2 DEF RecordUnqueued, Settled
      <3>2. KeysAreHeld'
        BY <1>0, <2>1, <3>1 DEF KeysAreHeld, Named
      <3>3. observeFile' \in [link: Instances \cup {None}, optIn: OptIn]
        BY <1>6, <1>8, <2>1, <2>2, <3>1 DEF RecordUnqueued, SaveOrNot
      <3>4. loose' \in BOOLEAN
        BY <3>1
      <3> QED BY <2>1, <3>1, <3>2, <3>3, <3>4
    <2>3. CASE ~appsMade
      <3>1. wedged' = TRUE /\ loose' = TRUE /\ UNCHANGED <<optIn, observeFile>>
        BY <1>8, <2>3 DEF RecordUnqueued
      <3>2. KeysAreHeld'
        BY <2>1, <3>1 DEF KeysAreHeld
      <3> QED BY <2>1, <3>1, <3>2
    <2> QED BY <2>2, <2>3
  <1>9. CASE BeginDisable
    <2> DEFINE new == [record |-> optIn, left |-> optIn, failed |-> {}]
    <2>1. new \in Disable /\ new.left = optIn /\ new.record = optIn /\ optIn # None
      BY <1>9 DEF BeginDisable, Disable
    <2>2. /\ disabling' = new /\ optIn' = None /\ loose' = (loose \/ applying # None) /\ disabling = None
          /\ UNCHANGED <<answering, link, appsMade, observeFile, putBack, applying, envSet, wedged>>
      BY <1>9 DEF BeginDisable
    <2> HIDE DEF new
    <2>3. KeysAreHeld'
      BY <2>1, <2>2 DEF KeysAreHeld, Named
    <2> QED BY <2>1, <2>2, <2>3
  <1>10. ASSUME NEW key \in AppKeys, Unset(key) PROVE LinkInv'
    <2>1. /\ disabling # None /\ disabling \in Disable
          /\ UNCHANGED <<answering, link, optIn, appsMade, observeFile, putBack, applying, wedged, loose>>
      BY <1>10 DEF Unset
    <2>2. /\ disabling' \in Disable /\ disabling'.record = disabling.record
          /\ disabling'.left = disabling.left \ {key}
          /\ \/ envSet' = envSet \ {key} /\ disabling'.failed = disabling.failed
             \/ envSet' \subseteq envSet /\ disabling'.failed = disabling.failed \cup {key}
      <3>1. disabling' \in {[disabling EXCEPT !.left = @ \ {key}],
                           [disabling EXCEPT !.left = @ \ {key}, !.failed = @ \cup {key}]}
        BY <1>10 DEF Unset
      <3>2. disabling' = [disabling EXCEPT !.left = @ \ {key}] =>
              /\ disabling' \in Disable /\ disabling'.record = disabling.record
              /\ disabling'.left = disabling.left \ {key} /\ disabling'.failed = disabling.failed
        BY <2>1 DEF Disable
      <3>3. disabling' = [disabling EXCEPT !.left = @ \ {key}, !.failed = @ \cup {key}] =>
              /\ disabling' \in Disable /\ disabling'.record = disabling.record
              /\ disabling'.left = disabling.left \ {key}
              /\ disabling'.failed = disabling.failed \cup {key}
        <4> SUFFICES ASSUME disabling' = [disabling EXCEPT !.left = @ \ {key}, !.failed = @ \cup {key}]
                     PROVE  /\ disabling' \in Disable /\ disabling'.record = disabling.record
                            /\ disabling'.left = disabling.left \ {key}
                            /\ disabling'.failed = disabling.failed \cup {key}
          OBVIOUS
        <4>1. PICK l, f \in SUBSET AppKeys : l = disabling.left \ {key} /\ f = disabling.failed \cup {key}
          BY <2>1 DEF Disable
        <4>2. disabling' = [disabling EXCEPT !.left = l, !.failed = f]
          BY <4>1
        <4>3. /\ [disabling EXCEPT !.left = l, !.failed = f] \in Disable
              /\ [disabling EXCEPT !.left = l, !.failed = f].record = disabling.record
              /\ [disabling EXCEPT !.left = l, !.failed = f].left = l
              /\ [disabling EXCEPT !.left = l, !.failed = f].failed = f
          BY <2>1 DEF Disable
        <4> QED BY ONLY <4>1, <4>2, <4>3
      <3> QED BY <1>10, <3>1, <3>2, <3>3 DEF Unset
    <2>3. KeysAreHeld'
      BY <2>1, <2>2 DEF KeysAreHeld, Named
    <2> QED BY <2>1, <2>2, <2>3
  <1>11. CASE EndDisable
    <2>1. /\ disabling # None /\ disabling \in Disable /\ disabling' = None /\ disabling.left = {}
          /\ UNCHANGED <<answering, link, appsMade, putBack, applying, envSet, wedged>>
          /\ loose' = (loose /\ (applying # None \/ ~(envSet' \subseteq Named(optIn'))))
      BY <1>11 DEF EndDisable, Settled
    <2>2. /\ optIn' \in OptIn
          /\ disabling.failed # {} => optIn' = disabling.failed /\ Named(optIn') = disabling.failed
      BY <1>0, <1>11, <2>1 DEF EndDisable, Disable
    <2>3. observeFile' \in [link: Instances \cup {None}, optIn: OptIn]
      BY <1>6, <1>11, <2>1, <2>2 DEF EndDisable, SaveOrNot
    <2>4. KeysAreHeld'
      BY <2>1, <2>2 DEF KeysAreHeld
    <2>5. loose' \in BOOLEAN
      BY <2>1
    <2> QED BY <2>1, <2>2, <2>3, <2>4, <2>5
  <1>12. CASE LinkRestart
    <2>1. /\ link' = observeFile.link /\ optIn' = observeFile.optIn /\ appsMade' = (observeFile.optIn # None)
          /\ putBack' = {} /\ applying' = None /\ disabling' = None /\ wedged' = FALSE
          /\ loose' = (loose \/ applying # None
                        \/ observeFile.optIn # (IF disabling # None THEN disabling.record ELSE optIn))
          /\ UNCHANGED <<answering, observeFile, envSet>>
      BY <1>12 DEF LinkRestart
    <2>2. disabling # None => Named(disabling.record) = disabling.record
      BY <1>0 DEF Disable
    <2>3. KeysAreHeld'
      <3>1. SUFFICES ASSUME ~loose' PROVE envSet \subseteq Named(optIn')
        BY <2>1 DEF KeysAreHeld
      <3>2. applying = None /\ ~loose /\ optIn' = IF disabling # None THEN disabling.record ELSE optIn
        BY <2>1, <3>1
      <3>3. CASE disabling # None
        BY <2>2, <3>2, <3>3 DEF KeysAreHeld
      <3>4. CASE disabling = None
        BY <3>2, <3>4 DEF KeysAreHeld
      <3> QED BY <3>3, <3>4
    <2>4. appsMade' \in BOOLEAN /\ loose' \in BOOLEAN
      BY <2>1
    <2> QED BY <2>1, <2>3, <2>4
  <1> QED BY <1>1, <1>2, <1>3, <1>4, <1>5, <1>7, <1>8, <1>9, <1>10, <1>11, <1>12 DEF LinkNext

(* A disable can undo what Dash set on an app: what is set is recorded,    *)
(* except for the calls loose names (handleObserveTelemetryApply and       *)
(* -Disable, saveLocked, load).                                            *)
THEOREM KeysAreRecorded == LinkSpec => [](LinkTypeOK /\ SetIsRecorded)
  <1>1. LinkInit => LinkInv
    <2> SUFFICES ASSUME LinkInit PROVE LinkInv
      OBVIOUS
    <2>1. LinkTypeOK
      BY DEF LinkInit, LinkTypeOK, OptIn
    <2>2. KeysAreHeld
      BY DEF LinkInit, KeysAreHeld
    <2> QED BY <2>1, <2>2 DEF LinkInv
  <1>2. LinkInv => LinkTypeOK /\ SetIsRecorded
    BY DEF LinkInv, KeysAreHeld, SetIsRecorded
  <1> QED BY <1>1, <1>2, LinkStep, PTL DEF LinkSpec

-----------------------------------------------------------------------------
(* The channels and the incidents that wait for one.                       *)

(* With a usable channel and no announcement due, nothing open is left     *)
(* unannounced, and what the tracker is about to open will be announced.   *)
OpeningIsTold ==
    \/ Usable(stored) = {}
    \/ AnnouncementDue
    \/ opened \subseteq notified /\ (observing # None => observing.notify)

AnnouncersBounded == Announcing <= MaxAnnouncers

ChannelInv == ChannelTypeOK /\ AnnouncersBounded /\ OpeningIsTold

(* One more announcer still is within the bound.                           *)
LEMMA StartingAnnounces ==
    ASSUME ChannelTypeOK, StartAnnouncer
    PROVE  /\ announcers' \in [{"asks", "marks"} -> 0..MaxAnnouncers]
           /\ Announcing' > 0 /\ AnnouncersBounded'
  <1>1. /\ announcers["asks"] \in 0..MaxAnnouncers /\ announcers["marks"] \in 0..MaxAnnouncers
        /\ announcers' = [announcers EXCEPT !["asks"] = announcers["asks"] + 1]
        /\ announcers["asks"] + announcers["marks"] < MaxAnnouncers
    BY DEF ChannelTypeOK, StartAnnouncer, Announcing
  <1>2. MaxAnnouncers \in Nat
    BY ChannelConstants
  <1>3. announcers["asks"] + 1 \in 0..MaxAnnouncers
    BY <1>1, <1>2
  <1>4. announcers'["asks"] = announcers["asks"] + 1 /\ announcers'["marks"] = announcers["marks"]
    BY <1>1 DEF ChannelTypeOK
  <1>5. announcers' \in [{"asks", "marks"} -> 0..MaxAnnouncers]
    BY <1>1, <1>3 DEF ChannelTypeOK
  <1> QED BY <1>1, <1>2, <1>4, <1>5 DEF Announcing, AnnouncersBounded

(* An edit of the file, saved or not.                                      *)
LEMMA EditKeeps ==
    ASSUME ChannelInv, NEW config \in [ChannelIds -> {"none", "unusable", "usable"}],
           Saved(config) \/ NotSaved(config),
           UNCHANGED <<opened, notified, observing, complaint, starting>>, retiring' \subseteq ChannelIds
    PROVE  ChannelInv'
  <1> USE DEF ChannelInv
  <1>1. CASE Saved(config)
    <2>1. announcers' \in [{"asks", "marks"} -> 0..MaxAnnouncers]
      BY <1>1, StartingAnnounces DEF Saved, ChannelTypeOK
    <2>2. ChannelTypeOK' /\ AnnouncersBounded'
      BY <1>1, <2>1, StartingAnnounces DEF Saved, ChannelTypeOK, AnnouncersBounded, Announcing
    <2>3. CASE FirstChannel(config)
      <3>1. Announcing' > 0
        BY <1>1, <2>3, StartingAnnounces DEF Saved
      <3> QED BY <2>2, <3>1 DEF OpeningIsTold, AnnouncementDue
    <2>4. CASE ~FirstChannel(config)
      <3>1. UNCHANGED <<announcers, unannounced, starting>> /\ stored' = config
        BY <1>1, <2>4 DEF Saved
      <3>2. Usable(stored)' # {} => Usable(stored) # {}
        BY <2>4, <3>1 DEF FirstChannel, Usable
      <3>3. AnnouncementDue => AnnouncementDue'
        BY <3>1 DEF AnnouncementDue, Announcing
      <3> QED BY <2>2, <3>2, <3>3 DEF OpeningIsTold
    <2> QED BY <2>3, <2>4
  <1>2. CASE NotSaved(config)
    <2>1. ChannelTypeOK' /\ AnnouncersBounded'
      BY <1>2 DEF NotSaved, ChannelTypeOK, AnnouncersBounded, Announcing
    <2>2. AnnouncementDue => AnnouncementDue'
      BY <1>2 DEF NotSaved, AnnouncementDue, Announcing
    <2>3. Usable(stored)' # {} => Usable(stored) # {} \/ AnnouncementDue'
      BY <1>2 DEF NotSaved, FirstChannel, Usable, AnnouncementDue
    <2> QED BY <2>1, <2>2, <2>3 DEF OpeningIsTold
  <1> QED BY <1>1, <1>2

(* Every step of the channels keeps their invariant.                       *)
LEMMA ChannelStep == ChannelInv /\ [ChannelNext]_channelVars => ChannelInv'
  <1> SUFFICES ASSUME ChannelInv, [ChannelNext]_channelVars PROVE ChannelInv'
    OBVIOUS
  <1> USE DEF ChannelInv
  <1>1. ASSUME NEW c \in ChannelIds, PutChannel(c) PROVE ChannelInv'
    <2>1. [stored EXCEPT ![c] = "usable"] \in [ChannelIds -> {"none", "unusable", "usable"}]
      BY DEF ChannelTypeOK
    <2> QED BY <1>1, <2>1, EditKeeps DEF PutChannel, ChannelTypeOK
  <1>2. ASSUME NEW c \in FlatChannels, NEW form \in {"none", "unusable", "usable"}, PatchSettings(c, form)
        PROVE  ChannelInv'
    <2>1. [stored EXCEPT ![c] = form] \in [ChannelIds -> {"none", "unusable", "usable"}]
      BY ChannelConstants DEF ChannelTypeOK
    <2> QED BY <1>2, <2>1, EditKeeps DEF PatchSettings, ChannelTypeOK
  <1>3. ASSUME NEW c \in ChannelIds, DeleteChannel(c) PROVE ChannelInv'
    <2>1. [stored EXCEPT ![c] = "none"] \in [ChannelIds -> {"none", "unusable", "usable"}]
      BY DEF ChannelTypeOK
    <2>2. retiring' \subseteq ChannelIds
      BY <1>3 DEF DeleteChannel, ChannelTypeOK
    <2> QED BY <1>3, <2>1, <2>2, EditKeeps DEF DeleteChannel
  <1>4. ASSUME UNCHANGED <<stored, observing, announcers, starting, unannounced>>, ChannelTypeOK',
               \E gone \in SUBSET AlertRules : opened' = opened \ gone /\ notified' = notified \ gone
        PROVE  ChannelInv'
    BY <1>4 DEF OpeningIsTold, AnnouncementDue, AnnouncersBounded, Announcing, Usable
  <1>5. ASSUME NEW c \in AlertRules, RetireChannel(c) \/ Recovers(c) PROVE ChannelInv'
    <2>1. ChannelTypeOK'
      BY <1>5 DEF RetireChannel, Recovers, ChannelTypeOK
    <2>2. {c} \in SUBSET AlertRules /\ opened' = opened \ {c} /\ notified' = notified \ {c}
          /\ UNCHANGED <<stored, observing, announcers, starting, unannounced>>
      BY <1>5 DEF RetireChannel, Recovers
    <2> QED BY <1>4, <2>1, <2>2
  <1>6. CASE AnnouncerAsks
    <2>1. PICK some \in HasChannels :
              announcers' = [asks |-> announcers["asks"] - 1,
                             marks |-> IF some THEN announcers["marks"] + 1 ELSE announcers["marks"]]
      BY <1>6 DEF AnnouncerAsks
    <2>2. UNCHANGED <<stored, opened, notified, observing, retiring, complaint, starting, unannounced>>
          /\ announcers["asks"] > 0
      BY <1>6 DEF AnnouncerAsks, AnnouncerOnly
    <2>3. /\ announcers'["asks"] = announcers["asks"] - 1
          /\ announcers'["marks"] = IF some THEN announcers["marks"] + 1 ELSE announcers["marks"]
      BY <2>1
    <2>4. /\ announcers["asks"] \in 0..MaxAnnouncers /\ announcers["marks"] \in 0..MaxAnnouncers
          /\ announcers["asks"] + announcers["marks"] <= MaxAnnouncers /\ MaxAnnouncers \in Nat
      BY ChannelConstants DEF ChannelTypeOK, AnnouncersBounded, Announcing
    <2>5. announcers'["asks"] \in 0..MaxAnnouncers /\ announcers'["marks"] \in 0..MaxAnnouncers
          /\ announcers'["asks"] + announcers'["marks"] <= MaxAnnouncers
      BY <2>2, <2>3, <2>4
    <2>6. ChannelTypeOK' /\ AnnouncersBounded'
      BY <2>1, <2>2, <2>5 DEF ChannelTypeOK, AnnouncersBounded, Announcing
    <2>a. Usable(stored) # {} => some = TRUE
      BY <2>1, Zenon DEF HasChannels
    <2>7. Usable(stored) # {} => announcers'["asks"] + announcers'["marks"] > 0
      BY <2>2, <2>3, <2>4, <2>a
    <2> QED BY <2>2, <2>6, <2>7 DEF OpeningIsTold, AnnouncementDue, Announcing, Usable
  <1>7. CASE AnnouncerMarks
    <2>1. /\ announcers["marks"] > 0 /\ observing = None
          /\ announcers' = [announcers EXCEPT !["marks"] = announcers["marks"] - 1]
          /\ notified' = opened /\ unannounced' = FALSE
          /\ UNCHANGED <<stored, opened, observing, retiring, complaint, starting>>
      BY <1>7 DEF AnnouncerMarks, TrackerFree, AnnouncerOnly
    <2>2. /\ announcers["asks"] \in 0..MaxAnnouncers /\ announcers["marks"] \in 0..MaxAnnouncers
          /\ announcers["asks"] + announcers["marks"] <= MaxAnnouncers /\ MaxAnnouncers \in Nat
      BY ChannelConstants DEF ChannelTypeOK, AnnouncersBounded, Announcing
    <2>3. announcers["marks"] - 1 \in 0..MaxAnnouncers
      BY <2>1, <2>2
    <2>4. announcers'["asks"] = announcers["asks"] /\ announcers'["marks"] = announcers["marks"] - 1
          /\ announcers' \in [{"asks", "marks"} -> 0..MaxAnnouncers]
      BY <2>1, <2>3 DEF ChannelTypeOK
    <2>5. AnnouncersBounded'
      BY <2>2, <2>4 DEF AnnouncersBounded, Announcing
    <2>6. unannounced' \in BOOLEAN
      BY <2>1
    <2>7. ChannelTypeOK'
      BY <2>1, <2>4, <2>6 DEF ChannelTypeOK
    <2> QED BY <2>1, <2>5, <2>7 DEF OpeningIsTold
  <1>8. ASSUME NEW r \in AlertRules, Observes(r), complaint' \in {None, complaint} PROVE ChannelInv'
    <2>1. PICK some \in HasChannels : observing' = [rule |-> r, notify |-> some]
      BY <1>8 DEF Observes
    <2>2. UNCHANGED <<stored, opened, notified, announcers, retiring, starting, unannounced>> /\ observing = None
      BY <1>8 DEF Observes, TrackerFree
    <2>3. some \in BOOLEAN /\ (Usable(stored) # {} => some)
      BY <2>1 DEF HasChannels
    <2>4. observing' \in Observation /\ observing'.notify = some
      BY <2>1, <2>3 DEF Observation
    <2>5. ChannelTypeOK' /\ AnnouncersBounded'
      BY <1>8, <2>2, <2>4 DEF ChannelTypeOK, AnnouncersBounded, Announcing
    <2> QED BY <2>2, <2>3, <2>4, <2>5 DEF OpeningIsTold, AnnouncementDue, Announcing, Usable
  <1>9. CASE Opens
    <2>1. /\ observing # None /\ observing \in Observation /\ observing' = None
          /\ opened' = opened \cup {observing.rule}
          /\ notified' = IF observing.notify THEN notified \cup {observing.rule} ELSE notified
          /\ UNCHANGED <<stored, announcers, retiring, complaint, starting, unannounced>>
      BY <1>9 DEF Opens, TrackerFree, ChannelTypeOK
    <2>2. ChannelTypeOK' /\ AnnouncersBounded'
      BY <2>1 DEF ChannelTypeOK, AnnouncersBounded, Announcing, Observation
    <2> QED BY <2>1, <2>2 DEF OpeningIsTold, AnnouncementDue, Announcing, Usable
  <1>10. ASSUME NEW c \in ChannelIds, DeadLetter(c) \/ ComplaintObserved(c) PROVE ChannelInv'
    <2>1. CASE Observes(c) /\ complaint' = None
      BY <1>8, <2>1 DEF AlertRules
    <2>2. CASE /\ complaint' \in {None, c}
               /\ UNCHANGED <<stored, opened, notified, observing, announcers, retiring, starting, unannounced>>
      BY <2>2 DEF OpeningIsTold, AnnouncementDue, AnnouncersBounded, Announcing, Usable, ChannelTypeOK
    <2> QED BY <1>10, <2>1, <2>2 DEF DeadLetter, ComplaintObserved
  <1>11. ASSUME NEW r \in WatchedRules, RuleObserved(r) PROVE ChannelInv'
    BY <1>8, <1>11 DEF RuleObserved, AlertRules
  <1>12. CASE AlertsRestart
    <2>1. announcers' \in [{"asks", "marks"} -> 0..MaxAnnouncers] /\ Announcing' <= MaxAnnouncers
      BY <1>12, ChannelConstants DEF AlertsRestart, Announcing
    <2> QED BY <1>12, <2>1 DEF AlertsRestart, ChannelTypeOK, AnnouncersBounded, OpeningIsTold, AnnouncementDue
  <1>13. CASE RunAlerting
    <2>1. ChannelTypeOK' /\ AnnouncersBounded' /\ Announcing' > 0
      BY <1>13, StartingAnnounces DEF RunAlerting, ChannelTypeOK
    <2> QED BY <2>1 DEF OpeningIsTold, AnnouncementDue
  <1>14. CASE UNCHANGED channelVars
    BY <1>14 DEF channelVars, OpeningIsTold, AnnouncementDue, AnnouncersBounded, Announcing, Usable, ChannelTypeOK
  <1> QED BY <1>1, <1>2, <1>3, <1>5, <1>6, <1>7, <1>9, <1>10, <1>11, <1>12, <1>13, <1>14
          DEF ChannelNext, AlertRules

(* What opened while nobody could be told is announced with the first      *)
(* usable channel, whichever of Observe and the save came first            *)
(* (updateNotifications, AnnounceUnannounced, Observe).                    *)
THEOREM OpeningsAreTold == ChannelSpec => [](ChannelTypeOK /\ OpenIsAnnounced)
  <1>1. ChannelInit => ChannelInv
    <2> SUFFICES ASSUME ChannelInit PROVE ChannelInv
      OBVIOUS
    <2>1. announcers \in [{"asks", "marks"} -> 0..MaxAnnouncers] /\ Announcing <= MaxAnnouncers
      BY ChannelConstants DEF ChannelInit, Announcing
    <2>2. Usable(stored) = {}
      BY DEF ChannelInit, Usable
    <2> QED BY <2>1, <2>2 DEF ChannelInit, ChannelInv, ChannelTypeOK, AnnouncersBounded, OpeningIsTold
  <1>2. ChannelInv => ChannelTypeOK /\ OpenIsAnnounced
    BY DEF ChannelInv, OpeningIsTold, OpenIsAnnounced
  <1> QED BY <1>1, <1>2, ChannelStep, PTL DEF ChannelSpec

-----------------------------------------------------------------------------
(* What holds alerts back.                                                 *)

(* Between two changes of its reasons an app has one flag that can hold.   *)
FlagUp == flagsRead.maintenance \/ flagsRead.locked
FlagFirst == IF flagsRead.maintenance THEN maintFirst ELSE lockFirst

SeenByNow ==
    /\ lockFirst # None => lockFirst <= clock
    /\ maintFirst # None => maintFirst <= clock
    /\ flagLast # None => flagLast <= clock
    /\ appOp # None => appOp.from <= clock
    /\ heldFrom = None <=> heldTo = None

(* While only the operation, or a flag seen before, can have held, the hold*)
(* is not older than the operation may be; once a flag was noted, it was   *)
(* noted by then, and holds for as long as a flag may.                     *)
HeldWithin == heldTo # None =>
    /\ heldFrom <= heldTo /\ heldTo <= clock
    /\ appOp # None => appOp.from <= heldFrom
    /\ ~FlagUp \/ FlagFirst = None =>
          /\ heldTo < heldFrom + Ceiling + Grace
          /\ flagLast # None => flagLast <= heldFrom
    /\ FlagUp /\ FlagFirst # None =>
          /\ FlagFirst <= heldFrom + Ceiling + Grace
          /\ flagLast # None => flagLast <= heldFrom \/ flagLast <= FlagFirst + LongestFlag
          /\ heldTo <= heldFrom + Ceiling + Grace + LongestFlag + Grace

HoldInv == HoldTypeOK /\ SeenByNow /\ HeldWithin

(* The bounds of a hold compare as their names say.                        *)
LEMMA HoldNumbers ==
    ASSUME HoldTypeOK
    PROVE  /\ {Grace, LockCap, MaintenanceCap, Ceiling, LongestFlag} \subseteq Int
           /\ Grace >= 0 /\ Ceiling >= 0 /\ LongestFlag >= MaintenanceCap /\ LongestFlag >= LockCap + Grace
           /\ LongestFlag >= 0
           /\ clock \in Int /\ clock # None /\ MaxClock \in Nat
           /\ \A f \in {lockFirst, maintFirst, flagLast, heldFrom, heldTo} : f # None => f \in Int
           /\ appOp # None => appOp.from \in Int
  BY HoldConstants, HoldRecords DEF HoldTypeOK, LongestFlag, Moments, AppOperation

(* A hold that rests on an operation ends by its ceiling and grace.        *)
LEMMA OperationHoldsShort ==
    ASSUME HoldTypeOK, OperationHolds
    PROVE  appOp # None /\ clock < appOp.from + Ceiling + Grace
  <1>1. appOp \in AppOperation /\ appOp # None
    BY DEF OperationHolds, HoldTypeOK
  <1>2. {Grace, Ceiling, clock, appOp.from} \subseteq Int
        /\ (appOp.finished # None => appOp.finished \in Int)
    BY <1>1, HoldNumbers DEF AppOperation, Moments
  <1> QED BY <1>1, <1>2 DEF OperationHolds, Earlier

(* Asking whether to hold an alert keeps the invariant.                    *)
LEMMA AskKeeps ==
    ASSUME HoldInv, AskHold
    PROVE  HoldInv'
  <1> USE DEF HoldInv
  <1>0. /\ UNCHANGED <<clock, flagsRead, listed, appOp>>
        /\ clock \in Moments /\ clock # None
    BY HoldRecords DEF AskHold, HoldTypeOK
  <1>1. CASE OperationHolds
    <2>1. UNCHANGED <<lockFirst, maintFirst, flagLast>> /\ heldTo' = clock
          /\ heldFrom' = IF heldTo # None /\ clock <= heldTo + 1 THEN heldFrom ELSE clock
      BY <1>1 DEF AskHold, Recall
    <2>2. HoldTypeOK'
      BY <1>0, <2>1 DEF HoldTypeOK
    <2>3. heldFrom' # None
      BY <1>0, <2>1 DEF SeenByNow
    <2>4. SeenByNow'
      BY <1>0, <2>1, <2>3 DEF SeenByNow
    <2>5. HeldWithin'
      BY <1>0, <1>1, <2>1, HoldNumbers, OperationHoldsShort DEF SeenByNow, HeldWithin, FlagUp, FlagFirst
    <2> QED BY <2>2, <2>4, <2>5
  <1>2. CASE ~OperationHolds
    <2> DEFINE M == Raised("maintenance")
               L == Raised("locked")
               held == MaintenanceHolds \/ LockHolds
    <2>1. /\ maintFirst' = IF M THEN Noted(maintFirst)
                           ELSE IF Lowered("maintenance") THEN None ELSE maintFirst
          /\ lockFirst' = IF Lowered("locked") THEN None
                          ELSE IF L /\ ~M THEN Noted(lockFirst) ELSE lockFirst
          /\ flagLast' = IF held THEN clock ELSE flagLast
          /\ Recall(held \/ InGrace)
      BY <1>2 DEF AskHold
    <2>2. /\ held \/ InGrace => /\ heldTo' = clock
                                /\ heldFrom' = IF heldTo # None /\ clock <= heldTo + 1 THEN heldFrom ELSE clock
          /\ ~(held \/ InGrace) => heldFrom' = None /\ heldTo' = None
      BY <2>1 DEF Recall
    <2>3. HoldTypeOK'
      BY <1>0, <2>1, <2>2 DEF HoldTypeOK, Noted
    <2>4. held \/ InGrace => heldFrom' # None
      BY <1>0, <2>2 DEF SeenByNow
    <2>5. SeenByNow'
      BY <1>0, <2>1, <2>2, <2>4, HoldNumbers DEF SeenByNow, Noted
    <2>6. HeldWithin'
      <3>1. SUFFICES ASSUME held \/ InGrace PROVE HeldWithin'
        BY <2>2 DEF HeldWithin
      <3>2. FlagUp' = FlagUp
        BY <1>0 DEF FlagUp
      <3>3. CASE ~FlagUp
        <4>1. ~held /\ InGrace /\ flagLast' = flagLast
          BY <2>1, <3>1, <3>3 DEF FlagUp, MaintenanceHolds, LockHolds, Raised
        <4> QED BY <1>0, <2>2, <3>1, <3>2, <3>3, <4>1, HoldNumbers DEF HeldWithin, SeenByNow, InGrace
      <3>4. CASE FlagUp
        <4>1. /\ FlagFirst # None => FlagFirst' = FlagFirst
              /\ FlagFirst = None => FlagFirst' \in {None, clock}
              /\ held => /\ FlagFirst' # None /\ flagLast' = clock
                         /\ clock <= FlagFirst' + LongestFlag
              /\ ~held => flagLast' = flagLast /\ InGrace
              /\ FlagFirst' # None => FlagFirst' <= clock
          <5>1. CASE flagsRead.maintenance
            <6>1. ~LockHolds /\ (held <=> MaintenanceHolds) /\ FlagFirst = maintFirst /\ FlagFirst' = maintFirst'
                  /\ ~Lowered("maintenance")
              BY <1>0, <5>1 DEF LockHolds, Raised, Lowered, FlagFirst
            <6> QED BY <1>0, <2>1, <2>5, <3>1, <6>1, HoldNumbers DEF MaintenanceHolds, Noted, SeenByNow
          <5>2. CASE ~flagsRead.maintenance
            <6>1. ~MaintenanceHolds /\ ~M /\ (held <=> LockHolds) /\ FlagFirst = lockFirst /\ FlagFirst' = lockFirst'
                  /\ ~Lowered("locked")
              BY <1>0, <3>4, <5>2 DEF MaintenanceHolds, Raised, Lowered, FlagFirst, FlagUp
            <6> QED BY <1>0, <2>1, <2>5, <3>1, <6>1, HoldNumbers DEF LockHolds, Noted, SeenByNow
          <5> QED BY <5>1, <5>2
        <4>2. FlagFirst # None => FlagFirst \in Int
          BY HoldNumbers DEF FlagFirst
        <4>3. CASE FlagFirst' = None
          BY <1>0, <2>2, <3>1, <3>2, <3>4, <4>1, <4>2, <4>3, HoldNumbers DEF HeldWithin, SeenByNow, InGrace
        <4>4. CASE FlagFirst' # None
          BY <1>0, <2>2, <3>1, <3>2, <3>4, <4>1, <4>2, <4>4, HoldNumbers DEF HeldWithin, SeenByNow, InGrace
        <4> QED BY <4>3, <4>4
      <3> QED BY <3>3, <3>4
    <2> QED BY <2>3, <2>5, <2>6
  <1> QED BY <1>1, <1>2

(* Every step of the holds keeps their invariant.                          *)
LEMMA HoldStep == HoldInv /\ [HoldNext]_holdVars => HoldInv'
  <1> SUFFICES ASSUME HoldInv, [HoldNext]_holdVars PROVE HoldInv'
    OBVIOUS
  <1> USE DEF HoldInv
  <1>1. CASE ClockTicks
    <2>1. clock' \in Moments /\ clock' = clock + 1
      BY <1>1, HoldNumbers DEF ClockTicks, HoldTypeOK, Moments
    <2>2. HoldTypeOK'
      BY <1>1, <2>1 DEF ClockTicks, HoldTypeOK
    <2> QED BY <1>1, <2>1, <2>2, HoldNumbers DEF ClockTicks, SeenByNow, HeldWithin, FlagUp, FlagFirst
  <1>2. CASE SnapshotChanges \/ UNCHANGED holdVars
    <2>1. UNCHANGED <<clock, flagsRead, lockFirst, maintFirst, flagLast, appOp, heldFrom, heldTo>>
          /\ listed' \in BOOLEAN
      BY <1>2 DEF SnapshotChanges, holdVars, HoldTypeOK
    <2> QED BY <2>1 DEF HoldTypeOK, SeenByNow, HeldWithin, FlagUp, FlagFirst
  <1>3. ASSUME ReasonChanges, UNCHANGED <<clock, listed, lockFirst, maintFirst, flagLast>>,
               flagsRead' \in Flags, appOp' \in AppOperation \cup {None},
               appOp' # None => appOp'.from <= clock
        PROVE  HoldInv'
    BY <1>3 DEF ReasonChanges, HoldTypeOK, SeenByNow, HeldWithin
  <1>4. ASSUME NEW flags \in Flags, FlagsChange(flags) PROVE HoldInv'
    BY <1>3, <1>4 DEF FlagsChange, HoldTypeOK, SeenByNow
  <1>5. ASSUME OperationOnly, appOp' \in AppOperation, appOp'.from <= clock PROVE HoldInv'
    BY <1>3, <1>5 DEF OperationOnly, HoldTypeOK
  <1>6. CASE OperationAdmitted
    <2> DEFINE queued == TRUE
    <2>1. queued \in BOOLEAN /\ appOp' = [from |-> clock, queued |-> queued, finished |-> None]
      BY <1>6 DEF OperationAdmitted
    <2> HIDE DEF queued
    <2>2. appOp' \in AppOperation /\ appOp'.from <= clock
      BY <2>1, HoldNumbers DEF AppOperation, HoldTypeOK
    <2> QED BY <1>5, <1>6, <2>2 DEF OperationAdmitted
  <1>7. CASE OperationStarts
    <2> DEFINE queued == FALSE
    <2>1. queued \in BOOLEAN /\ appOp' = [appOp EXCEPT !.from = clock, !.queued = queued]
          /\ appOp \in AppOperation
      BY <1>7 DEF OperationStarts, HoldTypeOK
    <2> HIDE DEF queued
    <2>2. appOp' \in AppOperation /\ appOp'.from = clock
      BY <2>1 DEF AppOperation, HoldTypeOK
    <2> QED BY <1>5, <1>7, <2>2, HoldNumbers DEF OperationStarts
  <1>8. CASE OperationEnds
    <2>1. appOp' = [appOp EXCEPT !.finished = clock] /\ appOp \in AppOperation /\ appOp # None
      BY <1>8 DEF OperationEnds, HoldTypeOK
    <2>2. appOp' \in AppOperation /\ appOp'.from = appOp.from
      BY <2>1 DEF AppOperation, HoldTypeOK
    <2> QED BY <1>5, <1>8, <2>1, <2>2 DEF OperationEnds, SeenByNow
  <1> QED BY <1>1, <1>2, <1>4, <1>6, <1>7, <1>8, AskKeeps DEF HoldNext

(* A hung deploy, a dead lock and a forgotten maintenance flag hide an     *)
(* outage for a time and no longer (alertHold, operationHolds).            *)
THEOREM HoldsAreBounded == HoldSpec => [](HoldTypeOK /\ HoldsEnd)
  <1>1. HoldInit => HoldInv
    <2> SUFFICES ASSUME HoldInit PROVE HoldInv
      OBVIOUS
    <2>1. [maintenance |-> FALSE, locked |-> FALSE] \in Flags /\ listed \in BOOLEAN
      BY DEF HoldInit, Flags
    <2>2. 0 \in Moments
      BY HoldConstants DEF Moments
    <2>3. HoldTypeOK
      BY <2>1, <2>2 DEF HoldInit, HoldTypeOK
    <2> QED BY <2>3 DEF HoldInit, HoldInv, SeenByNow, HeldWithin
  <1>2. HoldInv => HoldTypeOK /\ HoldsEnd
    <2> SUFFICES ASSUME HoldInv, heldTo # None
                 PROVE  heldTo - heldFrom <= (Ceiling + Grace) + LongestFlag + Grace
      BY DEF HoldsEnd, HoldInv
    <2>1. heldFrom # None /\ HoldTypeOK /\ HeldWithin
      BY DEF HoldInv, SeenByNow
    <2>2. {heldTo, heldFrom, Ceiling, Grace, LongestFlag} \subseteq Int
          /\ Ceiling >= 0 /\ Grace >= 0 /\ LongestFlag >= 0
      BY <2>1, HoldNumbers
    <2> QED BY <2>1, <2>2 DEF HeldWithin
  <1> QED BY <1>1, <1>2, HoldStep, PTL DEF HoldSpec

-----------------------------------------------------------------------------
(* Domain health.                                                          *)

(* A server that showed the domain has a record, and a whole one still     *)
(* shows it.                                                               *)
ShownIsRecorded ==
    \A s \in shown : domainRec[s] # None /\ (domainRec[s].state = "ok" => domainRec[s].row # "none")

(* It holds the rule, or the rule forgot it, or the sweep has just read it.*)
ShownIsKnown ==
    \A s \in shown :
        \/ s \in forgotten
        \/ ruleKeys # None /\ s \in ruleKeys
        \/ /\ domainSweep # None /\ domainSweep.supported
           /\ s \in domainSweep.fleet \ domainSweep.left /\ domainRec[s].state = "ok"

(* A sweep asks the servers it lists, and none without the feature.        *)
SweepAsksListed ==
    domainSweep # None => /\ domainSweep.left \subseteq domainSweep.fleet
                          /\ domainSweep.fleet # {} => domainSweep.supported

RetiredRests == retiredNow => domainSweep = None /\ shown \subseteq forgotten

DomainInv == DomainTypeOK /\ ShownIsRecorded /\ ShownIsKnown /\ RetiredRests /\ SweepAsksListed

(* The incident a closed rule has.                                         *)
LEMMA NoIncidentType == NoIncident \in Incident /\ NoIncident.open = (NoIncident.server # None)
  <1> DEFINE no == FALSE
  <1>1. no \in BOOLEAN /\ ~no /\ NoIncident = [open |-> no, server |-> None, count |-> 0]
    BY DEF NoIncident
  <1> HIDE DEF no, NoIncident
  <1> QED BY <1>1 DEF Incident

(* What an observation makes of the incident names its server when open.   *)
LEMMA IncidentTypes ==
    ASSUME DomainTypeOK, NEW rep \in DomainServers, NEW monitorDown \in BOOLEAN
    PROVE  LET i == Observed(rep, monitorDown)
           IN  i \in Incident /\ i.open = (i.server # None)
  <1> DEFINE yes == TRUE
             no == FALSE
  <1>1. yes \in BOOLEAN /\ no \in BOOLEAN /\ yes /\ ~no
    OBVIOUS
  <1>2. NoIncident = [open |-> no, server |-> None, count |-> 0]
        /\ MarkOpen(rep) = [open |-> yes, server |-> rep, count |-> 0]
    BY DEF NoIncident, MarkOpen
  <1> HIDE DEF yes, no
  <1>3. NoIncident \in Incident /\ NoIncident.open = (NoIncident.server # None)
    BY <1>1, <1>2 DEF Incident
  <1>4. MarkOpen(rep) \in Incident /\ MarkOpen(rep).open = (MarkOpen(rep).server # None)
    <2>1. rep # None
      BY DomainRecords
    <2>2. MarkOpen(rep) \in Incident /\ MarkOpen(rep).server = rep /\ MarkOpen(rep).open = yes
      BY <1>1, <1>2 DEF Incident
    <2> QED BY <2>1, <2>2 DEF yes
  <1>5. ASSUME NEW n \in 0..1
        PROVE  LET i == [incident EXCEPT !.count = n]
               IN  i \in Incident /\ i.open = (i.server # None)
    BY DEF DomainTypeOK, Incident
  <1>6. incident \in Incident /\ incident.open = (incident.server # None)
    BY DEF DomainTypeOK
  <1>7. 0 \in 0..1 /\ 1 \in 0..1
    OBVIOUS
  <1> HIDE DEF NoIncident, MarkOpen
  <1>8. \/ Observed(rep, monitorDown) = NoIncident
        \/ Observed(rep, monitorDown) = MarkOpen(rep)
        \/ Observed(rep, monitorDown) = incident
        \/ Observed(rep, monitorDown) = [incident EXCEPT !.count = 0]
        \/ Observed(rep, monitorDown) = [incident EXCEPT !.count = 1]
    BY DEF Observed
  <1>9. LET i == [incident EXCEPT !.count = 0]
        IN  i \in Incident /\ i.open = (i.server # None)
    BY <1>5, <1>7
  <1>10. LET i == [incident EXCEPT !.count = 1]
         IN  i \in Incident /\ i.open = (i.server # None)
    BY <1>5, <1>7
  <1> QED BY ONLY <1>3, <1>4, <1>6, <1>8, <1>9, <1>10, Zenon

(* The records an evaluation leaves, and the rows it goes by.              *)
LEMMA KeptTypes ==
    ASSUME DomainTypeOK
    PROVE  /\ Kept \in [DomainServers -> DomainRecord \cup {None}]
           /\ Representatives \subseteq ServingRows /\ ServingRows \subseteq DomainServers
           /\ \A s \in DomainServers : Kept[s] # None => Kept[s] = domainRec[s]
  <1>1. Kept \in [DomainServers -> DomainRecord \cup {None}]
        /\ \A s \in DomainServers : Kept[s] # None => Kept[s] = domainRec[s]
    BY DEF Kept, DomainTypeOK
  <1> QED BY <1>1 DEF Representatives, ServingRows, FreshRows, Saying

(* The evaluation that ends a sweep keeps the invariant.                   *)
LEMMA EvaluationKeeps ==
    ASSUME DomainInv, NEW rep \in DomainServers \cup {None}, NEW monitorDown \in BOOLEAN,
           EndSweep(rep, monitorDown)
    PROVE  DomainInv'
  <1> USE DEF DomainInv
  <1> DEFINE holders == IF ruleKeys # None THEN ruleKeys ELSE {incident.server}
             held == ruleKeys # None \/ incident.open
  <1>0. /\ domainSweep # None /\ domainSweep.left = {} /\ domainSweep \in DomainSweep
        /\ domainRec' = Kept /\ domainSweep' = None
        /\ shown' = shown \cap {s \in DomainServers : Kept[s] # None}
        /\ UNCHANGED <<members, served, moves>> /\ retiredNow = FALSE
        /\ rep \in IF ServingRows = {} THEN {None} ELSE Representatives
    BY DEF EndSweep, DomainTypeOK, RetiredRests
  <1>1. adopted' \subseteq DomainServers /\ shown' \subseteq DomainServers
    BY DEF EndSweep, DomainTypeOK
  <1>2. ShownIsRecorded'
    BY <1>0, KeptTypes DEF ShownIsRecorded
  <1>8. SweepAsksListed'
    BY <1>0 DEF SweepAsksListed
  <1>3. held => holders \in SUBSET DomainServers
    BY DEF DomainTypeOK, Incident
  (* A server the rule does not hold and that was not forgotten has just   *)
  (* been read, so its row serves the domain.                              *)
  <1>4. ASSUME NEW s \in shown', ServingRows = {} \/ ~domainSweep.supported
        PROVE  s \in forgotten \/ (ruleKeys # None /\ s \in ruleKeys)
    <2>1. s \in shown /\ s \in DomainServers /\ Kept[s] # None /\ Kept[s] = domainRec[s]
      BY <1>0, <1>4, KeptTypes
    <2>2. ASSUME domainSweep.supported, domainRec[s].state = "ok" PROVE FALSE
      <3>1. Kept[s].row # "none"
        BY <2>1, <2>2 DEF ShownIsRecorded
      <3> QED BY <1>4, <2>1, <2>2, <3>1 DEF ServingRows
    <2> QED BY <2>1, <2>2 DEF ShownIsKnown
  <1>5. CASE domainSweep.supported /\ ServingRows # {}
    <2>1. /\ incident' = Observed(rep, monitorDown) /\ ruleKeys' = ServingRows
          /\ forgotten' = shown \ ServingRows /\ retiredNow' = FALSE
      BY <1>5 DEF EndSweep
    <2>2. rep \in DomainServers
      BY <1>0, <1>5, KeptTypes
    <2>3. incident' \in Incident /\ incident'.open = (incident'.server # None)
      BY <2>1, <2>2, IncidentTypes
    <2>4. ruleKeys' # None /\ ruleKeys' \in SUBSET DomainServers
      BY <2>1, KeptTypes, DomainRecords
    <2>5. DomainTypeOK'
      BY <1>0, <1>1, <2>1, <2>3, <2>4, KeptTypes DEF DomainTypeOK
    <2>6. ShownIsKnown' /\ RetiredRests'
      BY <1>0, <2>1, <2>4 DEF ShownIsKnown, RetiredRests, SweepAsksListed
    <2> QED BY <1>2, <1>8, <2>5, <2>6
  <1>6. CASE ~(domainSweep.supported /\ ServingRows # {}) /\ held /\ MayRetire(holders)
    <2>1. /\ incident' = NoIncident /\ ruleKeys' = None /\ retiredNow' = incident.open
          /\ UNCHANGED forgotten
      BY <1>6 DEF EndSweep
    <2>2. ServingRows = {} /\ domainSweep.supported
      BY <1>6 DEF MayRetire
    <2>3. shown' \subseteq forgotten
      <3>1. SUFFICES ASSUME NEW s \in shown', ruleKeys # None, s \in ruleKeys PROVE FALSE
        BY <1>4, <2>2
      <3>2. s \in DomainServers /\ Kept[s] # None /\ Kept[s] = domainRec[s] /\ s \in shown
        BY <1>0, <3>1, KeptTypes
      <3>3. Kept[s].state = "ok"
        BY <1>6, <3>1, <3>2 DEF MayRetire
      <3>4. Kept[s].row # "none"
        BY <3>2, <3>3 DEF ShownIsRecorded
      <3> QED BY <2>2, <3>2, <3>4 DEF ServingRows
    <2>4. NoIncident \in Incident /\ NoIncident.open = (NoIncident.server # None)
      BY NoIncidentType
    <2>5. retiredNow' \in BOOLEAN
      BY <2>1 DEF DomainTypeOK, Incident
    <2> HIDE DEF holders, held
    <2>6. DomainTypeOK'
      BY <1>0, <1>1, <2>1, <2>4, <2>5, KeptTypes DEF DomainTypeOK
    <2>7. ShownIsKnown' /\ RetiredRests'
      BY <1>0, <2>1, <2>3 DEF ShownIsKnown, RetiredRests, SweepAsksListed
    <2> QED BY <1>2, <1>8, <2>6, <2>7
  <1>7. CASE ~(domainSweep.supported /\ ServingRows # {}) /\ ~(held /\ MayRetire(holders))
    <2>1. /\ ruleKeys' = IF held THEN holders ELSE None
          /\ retiredNow' = FALSE /\ UNCHANGED <<incident, forgotten>>
      BY <1>7 DEF EndSweep
    <2>2. ruleKeys # None => ruleKeys' = ruleKeys
      BY <2>1
    <2>3. ruleKeys' \in (SUBSET DomainServers) \cup {None}
      BY <1>3, <2>1
    <2> HIDE DEF holders, held
    <2>4. DomainTypeOK'
      BY <1>0, <1>1, <2>1, <2>3, KeptTypes DEF DomainTypeOK
    <2>5. ShownIsKnown' /\ RetiredRests'
      BY <1>0, <1>4, <1>7, <2>1, <2>2 DEF ShownIsKnown, RetiredRests, SweepAsksListed
    <2> QED BY <1>2, <1>8, <2>4, <2>5
  <1> QED BY <1>5, <1>6, <1>7

(* Every step of the domain's incident keeps its invariant.                *)
LEMMA DomainStep == DomainInv /\ [DomainNext]_domainVars => DomainInv'
  <1> SUFFICES ASSUME DomainInv, [DomainNext]_domainVars PROVE DomainInv'
    OBVIOUS
  <1> USE DEF DomainInv
  <1>1. CASE WorldMoves
    <2>1. UNCHANGED <<domainRec, adopted, ruleKeys, incident, domainSweep, shown, forgotten, retiredNow>>
          /\ moves > 0 /\ moves' = moves - 1
      BY <1>1 DEF WorldMoves
    <2>2. members' \subseteq DomainServers /\ served' \in [DomainServers -> DomainRow]
      BY <1>1 DEF WorldMoves, DomainTypeOK
    <2>3. moves' \in 0..MaxMoves
      BY <2>1, DomainRecords DEF DomainTypeOK
    <2>4. DomainTypeOK'
      BY <2>1, <2>2, <2>3 DEF DomainTypeOK
    <2> QED BY <2>1, <2>4 DEF ShownIsRecorded, ShownIsKnown, RetiredRests, SweepAsksListed
  <1>2. ASSUME NEW supported \in BOOLEAN, NEW whole \in BOOLEAN, BeginSweep(supported, whole)
        PROVE  DomainInv'
    <2>1. /\ domainSweep = None /\ retiredNow' = FALSE
          /\ UNCHANGED <<members, served, moves, domainRec, adopted, ruleKeys, incident, shown, forgotten>>
      BY <1>2 DEF BeginSweep
    <2> DEFINE queried == IF supported /\ whole THEN members ELSE {}
               both == supported /\ whole
    <2>2. domainSweep' = [left |-> queried, listed |-> both, supported |-> supported, fleet |-> queried]
      BY <1>2 DEF BeginSweep
    <2>3. queried \in SUBSET DomainServers /\ both \in BOOLEAN
      BY DEF DomainTypeOK
    <2> HIDE DEF queried, both
    <2>4. domainSweep' \in DomainSweep
      BY <1>2, <2>2, <2>3 DEF DomainSweep
    <2>5. DomainTypeOK'
      BY <2>1, <2>4 DEF DomainTypeOK
    <2>6. SweepAsksListed'
      <3>1. queried # {} => supported
        BY DEF queried
      <3> QED BY <2>2, <3>1 DEF SweepAsksListed
    <2> QED BY <2>1, <2>5, <2>6 DEF ShownIsRecorded, ShownIsKnown, RetiredRests, SweepAsksListed
  <1>3. ASSUME NEW s \in DomainServers, NEW state \in {"ok", "partial", "unreachable"},
               NEW row \in DomainRow, AskServer(s, state, row)
        PROVE  DomainInv'
    <2>1. /\ domainSweep # None /\ s \in domainSweep.left /\ domainSweep \in DomainSweep
          /\ domainSweep' = [domainSweep EXCEPT !.left = @ \ {s}]
          /\ shown' = IF state # "ok" THEN shown ELSE IF row = "none" THEN shown \ {s} ELSE shown \cup {s}
          /\ UNCHANGED <<members, served, moves, adopted, ruleKeys, incident, forgotten, retiredNow>>
      BY <1>3 DEF AskServer, DomainTypeOK
    <2>2. domainRec' = [domainRec EXCEPT ![s] = [state |-> state, row |-> row]]
          /\ row \in CheckAnswers(s, state)
      BY <1>3 DEF AskServer
    <2>3. [state |-> state, row |-> row] \in DomainRecord
          /\ [state |-> state, row |-> row] # None
      BY DomainRecords DEF DomainRecord
    <2>4. domainRec' \in [DomainServers -> DomainRecord \cup {None}]
      BY <2>2, <2>3 DEF DomainTypeOK
    <2>5. /\ domainSweep' \in DomainSweep /\ domainSweep' # None
          /\ domainSweep'.left = domainSweep.left \ {s} /\ domainSweep'.fleet = domainSweep.fleet
          /\ domainSweep'.supported = domainSweep.supported
          /\ domainSweep'.listed = domainSweep.listed
      BY <2>1, DomainRecords DEF DomainSweep
    <2>6. DomainTypeOK'
      BY <2>1, <2>4, <2>5 DEF DomainTypeOK
    <2>7. retiredNow' = FALSE
      BY <2>1 DEF RetiredRests, DomainTypeOK
    <2>8. domainRec'[s].state = state /\ domainRec'[s].row = row /\ domainRec'[s] # None
          /\ \A t \in DomainServers \ {s} : domainRec'[t] = domainRec[t]
      BY <2>2, <2>3 DEF DomainTypeOK
    <2>9. s \in shown /\ state = "unreachable" => row = domainRec[s].row
      BY <2>2 DEF CheckAnswers, ShownIsRecorded
    <2>10. ShownIsRecorded'
      BY <2>1, <2>8 DEF ShownIsRecorded, DomainTypeOK
    <2>11. ShownIsKnown'
      <3> SUFFICES ASSUME NEW t \in shown', t \notin forgotten, ~(ruleKeys # None /\ t \in ruleKeys)
                   PROVE  domainSweep'.supported /\ t \in domainSweep'.fleet \ domainSweep'.left
                          /\ domainRec'[t].state = "ok"
        BY <2>1, <2>5 DEF ShownIsKnown
      <3>1. CASE t # s
        BY <2>1, <2>5, <2>8, <3>1 DEF ShownIsKnown, DomainTypeOK
      <3>2. CASE t = s
        BY <2>1, <2>5, <2>8, <3>2 DEF ShownIsKnown, SweepAsksListed
      <3> QED BY <3>1, <3>2
    <2> QED BY <2>1, <2>5, <2>6, <2>7, <2>10, <2>11 DEF RetiredRests, SweepAsksListed
  <1>4. ASSUME NEW rep \in DomainServers \cup {None}, NEW out \in BOOLEAN, EndSweep(rep, out)
        PROVE  DomainInv'
    BY <1>4, EvaluationKeeps
  <1>5. CASE DomainRestart
    <2>1. /\ domainSweep = None /\ ruleKeys' = None /\ shown' = {} /\ forgotten' = {} /\ retiredNow' = FALSE
          /\ incident' = IF incident.open THEN incident ELSE NoIncident
          /\ UNCHANGED <<members, served, moves, domainRec, adopted, domainSweep>>
      BY <1>5 DEF DomainRestart
    <2>2. incident' \in Incident /\ incident'.open = (incident'.server # None)
      BY <2>1, NoIncidentType DEF DomainTypeOK
    <2>3. DomainTypeOK'
      BY <2>1, <2>2 DEF DomainTypeOK
    <2> QED BY <2>1, <2>3 DEF ShownIsRecorded, ShownIsKnown, RetiredRests, SweepAsksListed
  <1>6. CASE UNCHANGED domainVars
    BY <1>6 DEF domainVars, DomainTypeOK, ShownIsRecorded, ShownIsKnown, RetiredRests, SweepAsksListed
  <1> QED BY <1>1, <1>2, <1>3, <1>4, <1>5, <1>6 DEF DomainNext

(* A server keeps its row until a whole answer, and an incident is retired *)
(* on evidence only (evaluateDomainIncidents, carried).                    *)
THEOREM RetiredRightly == DomainSpec => [](DomainTypeOK /\ RetiredOnEvidence)
  <1>1. DomainInit => DomainInv
    <2> SUFFICES ASSUME DomainInit PROVE DomainInv
      OBVIOUS
    <2> USE DEF DomainInit
    <2>1. incident \in Incident /\ incident.open = (incident.server # None)
      BY NoIncidentType
    <2>2. moves \in 0..MaxMoves
      BY DomainRecords
    <2>3. served \in [DomainServers -> DomainRow] /\ domainRec \in [DomainServers -> DomainRecord \cup {None}]
      BY DEF DomainRow
    <2>4. DomainTypeOK
      BY <2>1, <2>2, <2>3 DEF DomainTypeOK
    <2> QED BY <2>4 DEF DomainInv, ShownIsRecorded, ShownIsKnown, RetiredRests, SweepAsksListed
  <1>2. DomainInv => DomainTypeOK /\ RetiredOnEvidence
    BY DEF DomainInv, RetiredRests, RetiredOnEvidence
  <1> QED BY <1>1, <1>2, DomainStep, PTL DEF DomainSpec

-----------------------------------------------------------------------------
(* Sibling discovery.                                                      *)

(* Two sweeps that have both read a server keep its rows and its probes    *)
(* apart until one of them reads it alone.                                 *)
TwoAreApart == \A s \in SiblingServers : Sweepers \subseteq Reading(s) => s \in apart

(* The records a sweep wrote to and that are still there; what it is not   *)
(* done with it listed, and once it has pruned it is done.                 *)
SweepInOrder ==
    \A by \in Sweepers : siblingSweep[by] # None =>
        /\ siblingSweep[by].mine \subseteq siblingSweep[by].list
        /\ \A s \in siblingSweep[by].mine : siblingRec[s] # None
        /\ \A s \in SiblingServers :
              /\ siblingSweep[by].stage[s] # "done" => s \in siblingSweep[by].list /\ ~siblingSweep[by].pruned

(* The rows a probing sweep recorded are still its own, unless apart.      *)
RowsAreOwn ==
    \A by \in Sweepers, s \in SiblingServers \ apart :
        Sweeping(by, s, {"probe"}) /\ s \in siblingSweep[by].mine =>
            siblingRec[s].rows = siblingSweep[by].got[s]

(* What a restart reads is as a process without sweeps would have it.      *)
FileAsListed ==
    \A s \in SiblingServers \ siblingFile.apart :
        siblingFile.rec[s] # None => siblingFile.rec[s].probes = siblingFile.rec[s].rows

SiblingInv ==
    SiblingTypeOK /\ ProbedAsListed /\ TwoAreApart /\ SweepInOrder /\ RowsAreOwn /\ FileAsListed

(* What a snapshot that may not have been written leaves in the file.      *)
LEMMA SnapshotKeeps ==
    ASSUME SiblingTypeOK, FileAsListed, SaveSnapshot, ProbedAsListed',
           siblingRec' \in [SiblingServers -> SiblingRecord \cup {None}], apart' \subseteq SiblingServers
    PROVE  /\ FileAsListed'
           /\ siblingFile'.rec \in [SiblingServers -> SiblingRecord \cup {None}]
           /\ siblingFile'.apart \in SUBSET SiblingServers
  <1>1. CASE siblingFile' = siblingFile
    BY <1>1 DEF SiblingTypeOK, FileAsListed
  <1>2. CASE siblingFile' = [rec |-> siblingRec', apart |-> (apart \cup Unprobed)']
    <2>1. siblingFile'.rec = siblingRec' /\ siblingFile'.apart = (apart \cup Unprobed)'
      BY <1>2
    <2>2. Unprobed' \subseteq SiblingServers
      BY DEF Unprobed
    <2> QED BY <2>1, <2>2 DEF ProbedAsListed, FileAsListed
  <1> QED BY <1>1, <1>2 DEF SaveSnapshot

(* A sweep moves on with one server.                                       *)
LEMMA MoveEffect ==
    ASSUME SiblingTypeOK, NEW by \in Sweepers, NEW s \in SiblingServers, NEW stage \in SiblingStage,
           siblingSweep[by] # None, SweepMoves(by, s, stage)
    PROVE  /\ siblingSweep' \in [Sweepers -> SiblingSweep \cup {None}]
           /\ \A c \in Sweepers \ {by} : siblingSweep'[c] = siblingSweep[c]
           /\ siblingSweep'[by] # None
           /\ siblingSweep'[by].mine = siblingSweep[by].mine /\ siblingSweep'[by].list = siblingSweep[by].list
           /\ siblingSweep'[by].got = siblingSweep[by].got /\ siblingSweep'[by].pruned = siblingSweep[by].pruned
           /\ siblingSweep'[by].stage[s] = stage
           /\ \A t \in SiblingServers \ {s} : siblingSweep'[by].stage[t] = siblingSweep[by].stage[t]
  <1>1. siblingSweep[by] \in SiblingSweep
    BY DEF SiblingTypeOK
  <1> DEFINE new == [siblingSweep[by] EXCEPT !.stage = [siblingSweep[by].stage EXCEPT ![s] = stage]]
  <1>2. new \in SiblingSweep /\ new.mine = siblingSweep[by].mine /\ new.list = siblingSweep[by].list
        /\ new.got = siblingSweep[by].got /\ new.pruned = siblingSweep[by].pruned
        /\ new.stage[s] = stage
        /\ \A t \in SiblingServers \ {s} : new.stage[t] = siblingSweep[by].stage[t]
    BY <1>1 DEF SiblingSweep
  <1>3. siblingSweep' = [siblingSweep EXCEPT ![by] = new]
    BY DEF SweepMoves
  <1> HIDE DEF new
  <1>4. new # None
    BY <1>2, SiblingRecords
  <1> QED BY <1>2, <1>3, <1>4 DEF SiblingTypeOK

(* A snapshot with nothing else.                                           *)
LEMMA SnapshotOnly ==
    ASSUME SiblingInv, UNCHANGED <<siblingFleet, reports, siblingRec, siblingSweep, apart>>, SaveSnapshot
    PROVE  SiblingInv'
  <1> USE DEF SiblingInv
  <1>1. ProbedAsListed' /\ TwoAreApart' /\ SweepInOrder' /\ RowsAreOwn'
    BY DEF ProbedAsListed, TwoAreApart, SweepInOrder, RowsAreOwn, Unprobed, Reading, Sweeping
  <1>2. siblingRec' \in [SiblingServers -> SiblingRecord \cup {None}] /\ apart' \subseteq SiblingServers
    BY DEF SiblingTypeOK
  <1>3. /\ FileAsListed' /\ siblingFile'.rec \in [SiblingServers -> SiblingRecord \cup {None}]
        /\ siblingFile'.apart \in SUBSET SiblingServers
    BY <1>1, <1>2, SnapshotKeeps
  <1>4. SiblingTypeOK'
    BY <1>3 DEF SiblingTypeOK
  <1> QED BY <1>1, <1>3, <1>4

(* The start of a sibling sweep keeps the invariant.                       *)
LEMMA BeginKeeps ==
    ASSUME SiblingInv, NEW by \in Sweepers, BeginSiblings(by)
    PROVE  SiblingInv'
  <1> USE DEF SiblingInv
  <1> DEFINE stages == [s \in SiblingServers |-> IF s \in siblingFleet THEN "ask" ELSE "done"]
             nothing == [s \in SiblingServers |-> 0]
             none == FALSE
             new == [stage |-> stages, got |-> nothing, list |-> siblingFleet, mine |-> {}, pruned |-> none]
  <1>1. /\ siblingSweep[by] = None /\ siblingSweep' = [siblingSweep EXCEPT ![by] = new]
        /\ UNCHANGED <<siblingFleet, reports, siblingRec, siblingFile, apart>>
    BY DEF BeginSiblings
  <1>2. /\ stages \in [SiblingServers -> SiblingStage] /\ nothing \in [SiblingServers -> 0..MaxReports]
        /\ none \in BOOLEAN /\ ~none
        /\ \A s \in SiblingServers : stages[s] \notin {"answer", "probe", "look"}
        /\ \A s \in SiblingServers : stages[s] # "done" => s \in siblingFleet
    BY SiblingConstants DEF SiblingStage
  <1> HIDE DEF stages, nothing, none
  <1>3. new \in SiblingSweep
    BY <1>2 DEF SiblingTypeOK, SiblingSweep
  <1>4. /\ new.stage = stages /\ new.list = siblingFleet /\ new.mine = {} /\ ~new.pruned
    BY <1>2
  <1> HIDE DEF new
  <1>5. /\ siblingSweep' \in [Sweepers -> SiblingSweep \cup {None}] /\ siblingSweep'[by] = new
        /\ \A c \in Sweepers \ {by} : siblingSweep'[c] = siblingSweep[c]
    BY <1>1, <1>3 DEF SiblingTypeOK
  <1>6. SiblingTypeOK'
    BY <1>1, <1>5 DEF SiblingTypeOK
  <1>7. Unprobed' = Unprobed /\ \A s \in SiblingServers : Reading(s)' = Reading(s)
    BY <1>1, <1>2, <1>4, <1>5 DEF Unprobed, Reading, Sweeping
  <1>8. ProbedAsListed' /\ FileAsListed'
    BY <1>1, <1>7 DEF ProbedAsListed, FileAsListed
  <1>9. TwoAreApart'
    BY <1>1, <1>7 DEF TwoAreApart
  <1>10. SweepInOrder'
    BY <1>1, <1>2, <1>4, <1>5 DEF SweepInOrder
  <1>11. RowsAreOwn'
    BY <1>1, <1>2, <1>4, <1>5 DEF RowsAreOwn, Sweeping
  <1> QED BY <1>6, <1>8, <1>9, <1>10, <1>11

(* A report is given; who else has read the server sets it apart.          *)
LEMMA ReportKeeps ==
    ASSUME SiblingInv, NEW by \in Sweepers, NEW s \in SiblingServers, ServerReports(by, s)
    PROVE  SiblingInv'
  <1> USE DEF SiblingInv
  <1> DEFINE old == siblingSweep[by]
             new == [old EXCEPT !.stage = [old.stage EXCEPT ![s] = "answer"],
                                !.got = [old.got EXCEPT ![s] = reports + 1]]
  <1>0. /\ old # None /\ old \in SiblingSweep /\ old.stage[s] = "ask"
        /\ siblingSweep' = [siblingSweep EXCEPT ![by].stage[s] = "answer", ![by].got[s] = reports + 1]
        /\ apart' = IF Reading(s) = {} THEN apart ELSE apart \cup {s}
        /\ UNCHANGED <<siblingFleet, siblingRec, siblingFile>> /\ reports' = reports + 1
    BY DEF ServerReports, Sweeping, SiblingTypeOK
  <1>0a. reports' \in 0..MaxReports
    BY SiblingConstants DEF ServerReports, SiblingTypeOK
  <1>0b. siblingSweep' = [siblingSweep EXCEPT ![by] = new]
    BY <1>0 DEF SiblingTypeOK, SiblingSweep
  <1>1. /\ old # None /\ old \in SiblingSweep /\ old.stage[s] = "ask"
        /\ siblingSweep' = [siblingSweep EXCEPT ![by] = new]
        /\ apart' = IF Reading(s) = {} THEN apart ELSE apart \cup {s}
        /\ UNCHANGED <<siblingFleet, siblingRec, siblingFile>> /\ reports' = reports + 1
        /\ reports' \in 0..MaxReports
    BY <1>0, <1>0a, <1>0b
  <1>2. /\ new \in SiblingSweep /\ new.mine = old.mine /\ new.list = old.list /\ new.pruned = old.pruned
        /\ new.stage[s] = "answer"
        /\ \A t \in SiblingServers \ {s} : new.stage[t] = old.stage[t] /\ new.got[t] = old.got[t]
    BY <1>1 DEF SiblingSweep, SiblingStage
  <1>3. new # None
    BY <1>2, SiblingRecords
  <1> HIDE DEF new
  <1>5. /\ siblingSweep' \in [Sweepers -> SiblingSweep \cup {None}] /\ siblingSweep'[by] = new
        /\ \A c \in Sweepers \ {by} : siblingSweep'[c] = siblingSweep[c]
    BY <1>1, <1>2 DEF SiblingTypeOK
  <1>6. SiblingTypeOK'
    BY <1>1, <1>5 DEF SiblingTypeOK
  <1>7. Unprobed' = Unprobed
    BY <1>1, <1>2, <1>3, <1>5 DEF Unprobed, Sweeping
  <1>8. ProbedAsListed' /\ FileAsListed'
    BY <1>1, <1>7 DEF ProbedAsListed, FileAsListed
  <1>9. TwoAreApart'
    <2> SUFFICES ASSUME NEW t \in SiblingServers, Sweepers \subseteq Reading(t)', t \notin apart' PROVE FALSE
      BY DEF TwoAreApart
    <2>1. CASE t # s
      BY <1>1, <1>2, <1>3, <1>5, <2>1 DEF TwoAreApart, Reading, Sweeping
    <2>2. CASE t = s
      <3>1. PICK c \in Sweepers : c # by
        BY DEF Sweepers
      <3>2. c \in Reading(s)
        BY <1>5, <2>2, <3>1 DEF Reading, Sweeping
      <3> QED BY <1>1, <2>2, <3>2
    <2> QED BY <2>1, <2>2
  <1>10. SweepInOrder'
    BY <1>1, <1>2, <1>3, <1>5 DEF SweepInOrder
  <1>11. RowsAreOwn'
    BY <1>1, <1>2, <1>3, <1>5 DEF RowsAreOwn, Sweeping
  <1> QED BY <1>6, <1>8, <1>9, <1>10, <1>11

(* A sweep that gives up on a server keeps the invariant.                  *)
LEMMA GivesUpKeeps ==
    ASSUME SiblingInv, NEW s \in SiblingServers, SweepGivesUp(s)
    PROVE  SiblingInv'
  <1> USE DEF SiblingInv
  <1> DEFINE me == "by hand"
  <1>1. /\ me \in Sweepers /\ siblingSweep[me] # None /\ siblingSweep[me].stage[s] \in {"ask", "answer"}
        /\ SweepMoves(me, s, "done") /\ UNCHANGED <<siblingFleet, reports, siblingRec, siblingFile, apart>>
    BY DEF SweepGivesUp, Sweeping, Sweepers
  <1> HIDE DEF me
  <1>2. /\ siblingSweep' \in [Sweepers -> SiblingSweep \cup {None}]
        /\ \A c \in Sweepers \ {me} : siblingSweep'[c] = siblingSweep[c]
        /\ siblingSweep'[me] # None
        /\ siblingSweep'[me].mine = siblingSweep[me].mine /\ siblingSweep'[me].list = siblingSweep[me].list
        /\ siblingSweep'[me].got = siblingSweep[me].got /\ siblingSweep'[me].pruned = siblingSweep[me].pruned
        /\ siblingSweep'[me].stage[s] = "done"
        /\ \A t \in SiblingServers \ {s} : siblingSweep'[me].stage[t] = siblingSweep[me].stage[t]
    BY <1>1, MoveEffect DEF SiblingStage
  <1>3. SiblingTypeOK'
    BY <1>1, <1>2 DEF SiblingTypeOK
  <1>4. Unprobed' = Unprobed /\ \A t \in SiblingServers : Reading(t)' \subseteq Reading(t)
    BY <1>1, <1>2 DEF Unprobed, Reading, Sweeping
  <1>5. ProbedAsListed' /\ FileAsListed' /\ TwoAreApart'
    BY <1>1, <1>4 DEF ProbedAsListed, FileAsListed, TwoAreApart
  <1>6. SweepInOrder'
    BY <1>1, <1>2 DEF SweepInOrder
  <1>7. RowsAreOwn'
    BY <1>1, <1>2 DEF RowsAreOwn, Sweeping
  <1> QED BY <1>3, <1>5, <1>6, <1>7

(* A report that fails keeps the invariant.                                *)
LEMMA FailureKeeps ==
    ASSUME SiblingInv, NEW by \in Sweepers, NEW s \in SiblingServers, ReportFails(by, s)
    PROVE  SiblingInv'
  <1> USE DEF SiblingInv
  <1>1. /\ siblingSweep[by] # None /\ siblingSweep[by].stage[s] = "ask" /\ SweepMoves(by, s, "done")
        /\ siblingRec' = [siblingRec EXCEPT ![s] = Known(s)]
        /\ UNCHANGED <<siblingFleet, reports, apart>> /\ SaveSnapshot
    BY DEF ReportFails, Sweeping
  <1>2. /\ siblingSweep' \in [Sweepers -> SiblingSweep \cup {None}]
        /\ \A c \in Sweepers \ {by} : siblingSweep'[c] = siblingSweep[c]
        /\ siblingSweep'[by] # None
        /\ siblingSweep'[by].mine = siblingSweep[by].mine /\ siblingSweep'[by].list = siblingSweep[by].list
        /\ siblingSweep'[by].got = siblingSweep[by].got /\ siblingSweep'[by].pruned = siblingSweep[by].pruned
        /\ siblingSweep'[by].stage[s] = "done"
        /\ \A t \in SiblingServers \ {s} : siblingSweep'[by].stage[t] = siblingSweep[by].stage[t]
    BY <1>1, MoveEffect DEF SiblingStage
  <1>3. /\ Known(s) \in SiblingRecord /\ Known(s) # None
        /\ siblingRec[s] # None => Known(s) = siblingRec[s]
        /\ siblingRec[s] = None => Known(s).rows = Known(s).probes
    BY SiblingConstants, SiblingRecords DEF Known, SiblingRecord, SiblingTypeOK
  <1>4. /\ siblingRec' \in [SiblingServers -> SiblingRecord \cup {None}]
        /\ siblingRec'[s] = Known(s) /\ \A t \in SiblingServers \ {s} : siblingRec'[t] = siblingRec[t]
        /\ \A t \in SiblingServers : siblingRec[t] # None => siblingRec'[t] = siblingRec[t]
    BY <1>1, <1>3 DEF SiblingTypeOK
  <1>5. Unprobed' = Unprobed /\ \A t \in SiblingServers : Reading(t)' = Reading(t)
    BY <1>1, <1>2 DEF Unprobed, Reading, Sweeping
  <1>6. ProbedAsListed'
    BY <1>1, <1>3, <1>4, <1>5 DEF ProbedAsListed
  <1>7. /\ FileAsListed' /\ siblingFile'.rec \in [SiblingServers -> SiblingRecord \cup {None}]
        /\ siblingFile'.apart \in SUBSET SiblingServers
    BY <1>1, <1>4, <1>6, SnapshotKeeps DEF SiblingTypeOK
  <1>8. SiblingTypeOK'
    BY <1>1, <1>2, <1>4, <1>7 DEF SiblingTypeOK
  <1>9. TwoAreApart'
    BY <1>1, <1>5 DEF TwoAreApart
  <1>10. SweepInOrder'
    BY <1>1, <1>2, <1>4, SMTT(30) DEF SweepInOrder, SiblingTypeOK, SiblingSweep
  <1>11. RowsAreOwn'
    BY <1>1, <1>2, <1>4 DEF RowsAreOwn, Sweeping, SweepInOrder
  <1> QED BY <1>6, <1>7, <1>8, <1>9, <1>10, <1>11

(* The rows are recorded; a sweep alone at the server brings rows and      *)
(* probes together again.                                                  *)
LEMMA RecordKeeps ==
    ASSUME SiblingInv, NEW by \in Sweepers, NEW s \in SiblingServers, NEW reachable \in BOOLEAN,
           RecordReport(by, s, reachable)
    PROVE  SiblingInv'
  <1> USE DEF SiblingInv
  <1> DEFINE old == siblingSweep[by]
             next == IF reachable THEN "probe" ELSE "look"
             new == [old EXCEPT !.stage = [old.stage EXCEPT ![s] = next], !.mine = old.mine \cup {s}]
             row == [Known(s) EXCEPT !.rows = old.got[s]]
  <1>0. /\ old # None /\ old \in SiblingSweep /\ old.stage[s] = "answer"
        /\ siblingSweep' = [siblingSweep EXCEPT ![by].stage[s] = next, ![by].mine = @ \cup {s}]
        /\ siblingRec' = [siblingRec EXCEPT ![s] = row]
        /\ apart' = IF ~reachable THEN apart \cup {s}
                    ELSE IF Reading(s) = {by} THEN apart \ {s} ELSE apart
        /\ UNCHANGED <<siblingFleet, reports, siblingFile>>
    BY DEF RecordReport, Sweeping, SiblingTypeOK
  <1>0a. siblingSweep' = [siblingSweep EXCEPT ![by] = new]
    BY <1>0 DEF SiblingTypeOK, SiblingSweep
  <1>0b. Known(s) \in SiblingRecord
    BY SiblingConstants DEF Known, SiblingRecord, SiblingTypeOK
  <1>0c. row \in SiblingRecord /\ row.rows = old.got[s]
    BY <1>0, <1>0b DEF SiblingRecord, SiblingSweep
  <1>0d. row # None
    BY <1>0c, SiblingRecords
  <1> HIDE DEF row
  <1>1. /\ siblingRec' \in [SiblingServers -> SiblingRecord \cup {None}]
        /\ siblingRec'[s] = row /\ \A t \in SiblingServers \ {s} : siblingRec'[t] = siblingRec[t]
    BY <1>0, <1>0c DEF SiblingTypeOK
  <1>2. /\ next \in {"probe", "look"} /\ (next = "probe" <=> reachable)
    OBVIOUS
  <1> HIDE DEF next
  <1>2a. /\ new \in SiblingSweep /\ new.mine = old.mine \cup {s} /\ new.list = old.list
         /\ new.pruned = old.pruned /\ new.got = old.got /\ new.stage[s] = next
         /\ \A t \in SiblingServers \ {s} : new.stage[t] = old.stage[t]
    BY <1>0, <1>2 DEF SiblingSweep, SiblingStage
  <1>3. new # None
    BY <1>2a, SiblingRecords
  <1> HIDE DEF new
  <1>5. /\ siblingSweep' \in [Sweepers -> SiblingSweep \cup {None}] /\ siblingSweep'[by] = new
        /\ \A c \in Sweepers \ {by} : siblingSweep'[c] = siblingSweep[c]
    BY <1>0, <1>0a, <1>2a DEF SiblingTypeOK
  <1>6. SiblingTypeOK'
    BY <1>0, <1>1, <1>5 DEF SiblingTypeOK
  <1>7. \A t \in SiblingServers : Reading(t)' = Reading(t)
    <2> SUFFICES ASSUME NEW t \in SiblingServers, NEW c \in Sweepers
                 PROVE  Sweeping(c, t, {"answer", "probe", "look"})' <=> Sweeping(c, t, {"answer", "probe", "look"})
      BY DEF Reading
    <2>1. CASE c # by
      BY <1>5, <2>1 DEF Sweeping
    <2>2. CASE c = by /\ t # s
      BY <1>0, <1>2a, <1>3, <1>5, <2>2 DEF Sweeping
    <2>3. CASE c = by /\ t = s
      BY <1>0, <1>2, <1>2a, <1>3, <1>5, <2>3 DEF Sweeping
    <2> QED BY <2>1, <2>2, <2>3
  <1>8. /\ \A t \in SiblingServers \ {s} : t \in Unprobed' <=> t \in Unprobed
        /\ \A t \in SiblingServers \ {s} : t \in apart' <=> t \in apart
        /\ s \in apart' \cup Unprobed'
    <2>1. ASSUME NEW t \in SiblingServers, t # s
          PROVE  (t \in Unprobed' <=> t \in Unprobed) /\ (t \in apart' <=> t \in apart)
      <3>1. ASSUME NEW c \in Sweepers
            PROVE  /\ Sweeping(c, t, {"probe"})' <=> Sweeping(c, t, {"probe"})
                   /\ Sweeping(c, t, {"probe"}) =>
                          (t \in siblingSweep'[c].mine <=> t \in siblingSweep[c].mine)
        <4>1. CASE c # by
          BY <1>5, <4>1 DEF Sweeping
        <4>2. CASE c = by
          BY <1>0, <1>2a, <1>3, <1>5, <2>1, <4>2 DEF Sweeping
        <4> QED BY <4>1, <4>2
      <3>2. t \in Unprobed' <=> t \in Unprobed
        BY <3>1 DEF Unprobed
      <3>3. t \in apart' <=> t \in apart
        BY <1>0, <2>1
      <3> QED BY <3>2, <3>3
    <2>2. s \in apart' \cup Unprobed'
      BY <1>0, <1>2, <1>2a, <1>3, <1>5 DEF Unprobed, Sweeping
    <2> QED BY <2>1, <2>2
  <1>9. ProbedAsListed' /\ FileAsListed'
    BY <1>0, <1>1, <1>8 DEF ProbedAsListed, FileAsListed
  <1>10. TwoAreApart'
    <2> SUFFICES ASSUME NEW t \in SiblingServers, Sweepers \subseteq Reading(t) PROVE t \in apart'
      BY <1>7 DEF TwoAreApart
    <2>1. t \in apart
      BY DEF TwoAreApart
    <2>2. Reading(t) # {by}
      BY DEF Sweepers
    <2> QED BY <1>0, <1>8, <2>1, <2>2
  <1>11. SweepInOrder'
    BY <1>0, <1>0d, <1>1, <1>2, <1>2a, <1>3, <1>5 DEF SweepInOrder
  <1>12. RowsAreOwn'
    <2> SUFFICES ASSUME NEW c \in Sweepers, NEW t \in SiblingServers, t \notin apart',
                        Sweeping(c, t, {"probe"})', t \in siblingSweep'[c].mine
                 PROVE  siblingRec'[t].rows = siblingSweep'[c].got[t]
      BY DEF RowsAreOwn
    <2>1. CASE t # s
      BY <1>0, <1>1, <1>2a, <1>3, <1>5, <1>8, <2>1 DEF RowsAreOwn, Sweeping
    <2>2. CASE t = s /\ c = by
      BY <1>0, <1>0c, <1>1, <1>2a, <1>3, <1>5, <2>2
    (* Both have read the server, so that it is apart.                     *)
    <2>3. CASE t = s /\ c # by
      <3>1. {by, c} \subseteq Reading(s)
        BY <1>0, <1>5, <2>3 DEF Reading, Sweeping
      <3>2. \A x \in Sweepers : x = by \/ x = c
        BY <2>3 DEF Sweepers
      <3>3. Sweepers \subseteq Reading(s)
        BY <3>1, <3>2
      <3> QED BY <1>7, <1>10, <2>3, <3>3 DEF TwoAreApart
    <2> QED BY <2>1, <2>2, <2>3
  <1> QED BY <1>6, <1>9, <1>10, <1>11, <1>12

(* The probes are merged onto the rows they were made for, if the server   *)
(* is not apart.                                                           *)
LEMMA MergeKeeps ==
    ASSUME SiblingInv, NEW by \in Sweepers, NEW s \in SiblingServers, MergeProbes(by, s)
    PROVE  SiblingInv'
  <1> USE DEF SiblingInv
  <1>1. /\ siblingSweep[by] # None /\ siblingSweep[by].stage[s] \in {"probe", "look"}
        /\ SweepMoves(by, s, "done") /\ UNCHANGED <<siblingFleet, reports, apart>>
    BY DEF MergeProbes, Sweeping
  <1>2. /\ siblingSweep' \in [Sweepers -> SiblingSweep \cup {None}]
        /\ \A c \in Sweepers \ {by} : siblingSweep'[c] = siblingSweep[c]
        /\ siblingSweep'[by] # None
        /\ siblingSweep'[by].mine = siblingSweep[by].mine /\ siblingSweep'[by].list = siblingSweep[by].list
        /\ siblingSweep'[by].got = siblingSweep[by].got /\ siblingSweep'[by].pruned = siblingSweep[by].pruned
        /\ siblingSweep'[by].stage[s] = "done"
        /\ \A t \in SiblingServers \ {s} : siblingSweep'[by].stage[t] = siblingSweep[by].stage[t]
    BY <1>1, MoveEffect DEF SiblingStage
  <1> DEFINE merged == s \in siblingSweep[by].mine /\ siblingSweep[by].stage[s] = "probe"
  <1>3. siblingRec' = IF merged THEN [siblingRec EXCEPT ![s].probes = siblingSweep[by].got[s]] ELSE siblingRec
    BY <1>1 DEF MergeProbes, Sweeping
  <1>4. merged => /\ siblingRec[s] \in SiblingRecord /\ siblingRec[s] # None
                  /\ siblingSweep[by].got[s] \in 0..MaxReports
    BY <1>1 DEF SweepInOrder, SiblingTypeOK, SiblingSweep
  <1>5. /\ siblingRec' \in [SiblingServers -> SiblingRecord \cup {None}]
        /\ \A t \in SiblingServers \ {s} : siblingRec'[t] = siblingRec[t]
        /\ ~merged => siblingRec' = siblingRec
        /\ merged => /\ siblingRec'[s] \in SiblingRecord
                     /\ siblingRec'[s].rows = siblingRec[s].rows
                     /\ siblingRec'[s].probes = siblingSweep[by].got[s]
    BY <1>3, <1>4 DEF SiblingTypeOK, SiblingRecord
  <1>6. merged => siblingRec'[s] # None
    BY <1>5, SiblingRecords
  <1> HIDE DEF merged
  <1>7. /\ \A t \in SiblingServers \ {s} : t \in Unprobed' <=> t \in Unprobed
        /\ \A t \in SiblingServers : Reading(t)' \subseteq Reading(t)
        /\ ~merged => Unprobed' = Unprobed
    BY <1>1, <1>2 DEF merged, Unprobed, Reading, Sweeping
  <1>8. ProbedAsListed'
    <2> SUFFICES ASSUME NEW t \in SiblingServers, t \notin apart, t \notin Unprobed', siblingRec'[t] # None
                 PROVE  siblingRec'[t].probes = siblingRec'[t].rows
      BY <1>1 DEF ProbedAsListed
    <2>1. CASE t # s \/ ~merged
      BY <1>5, <1>7, <2>1 DEF ProbedAsListed
    <2>2. CASE t = s /\ merged
      BY <1>1, <1>5, <2>2 DEF merged, RowsAreOwn, Sweeping
    <2> QED BY <2>1, <2>2
  <1>9. /\ FileAsListed' /\ siblingFile'.rec \in [SiblingServers -> SiblingRecord \cup {None}]
        /\ siblingFile'.apart \in SUBSET SiblingServers
    <2>1. CASE SaveSnapshot
      BY <1>1, <1>5, <1>8, <2>1, SnapshotKeeps DEF SiblingTypeOK
    <2>2. CASE UNCHANGED siblingFile
      BY <2>2 DEF FileAsListed, SiblingTypeOK
    <2> QED BY <2>1, <2>2 DEF MergeProbes
  <1>10. SiblingTypeOK'
    BY <1>1, <1>2, <1>5, <1>9 DEF SiblingTypeOK
  <1>11. TwoAreApart'
    BY <1>1, <1>7 DEF TwoAreApart
  <1>12. SweepInOrder'
    BY <1>1, <1>2, <1>5, <1>6 DEF SweepInOrder, SiblingTypeOK, SiblingSweep
  <1>13. RowsAreOwn'
    <2> SUFFICES ASSUME NEW c \in Sweepers, NEW t \in SiblingServers, t \notin apart,
                        Sweeping(c, t, {"probe"})', t \in siblingSweep'[c].mine
                 PROVE  siblingRec'[t].rows = siblingSweep'[c].got[t]
      BY <1>1 DEF RowsAreOwn
    <2>1. /\ Sweeping(c, t, {"probe"}) /\ t \in siblingSweep[c].mine
          /\ siblingSweep'[c].got[t] = siblingSweep[c].got[t]
      BY <1>1, <1>2 DEF Sweeping
    <2> QED BY <1>5, <2>1 DEF RowsAreOwn
  <1> QED BY <1>8, <1>9, <1>10, <1>11, <1>12, <1>13

(* What is forgotten is no longer anybody's.                               *)
LEMMA ForgetKeeps ==
    ASSUME SiblingInv, NEW by \in Sweepers, ForgetDeparted(by)
    PROVE  SiblingInv'
  <1> USE DEF SiblingInv
  <1> DEFINE list == siblingSweep[by].list
  <1>1. /\ siblingSweep[by] # None /\ siblingSweep[by] \in SiblingSweep
        /\ \A s \in SiblingServers : siblingSweep[by].stage[s] = "done"
        /\ UNCHANGED <<siblingFleet, reports, siblingFile, apart>>
    BY DEF ForgetDeparted, Sweeping, SiblingTypeOK
  <1>2. siblingRec' = [s \in SiblingServers |-> IF s \in list THEN siblingRec[s] ELSE None]
    BY DEF ForgetDeparted
  <1>3. /\ siblingRec' \in [SiblingServers -> SiblingRecord \cup {None}]
        /\ \A s \in SiblingServers : siblingRec'[s] = IF s \in list THEN siblingRec[s] ELSE None
    BY <1>2 DEF SiblingTypeOK
  <1> DEFINE yes == TRUE
             own == [siblingSweep[by] EXCEPT !.pruned = yes]
             others(b) == [siblingSweep[b] EXCEPT !.mine = siblingSweep[b].mine \cap list]
  <1>4. siblingSweep' = [b \in Sweepers |-> IF b = by THEN own
                         ELSE IF siblingSweep[b] = None THEN None ELSE others(b)]
    BY DEF ForgetDeparted
  <1>5. yes \in BOOLEAN /\ yes
    OBVIOUS
  <1> HIDE DEF yes
  <1>6. /\ own \in SiblingSweep /\ own.stage = siblingSweep[by].stage /\ own.list = list
        /\ own.mine = siblingSweep[by].mine /\ own.got = siblingSweep[by].got
    BY <1>1, <1>5 DEF SiblingSweep
  <1>7. \A b \in Sweepers : siblingSweep[b] # None =>
          /\ others(b) \in SiblingSweep /\ others(b).stage = siblingSweep[b].stage
          /\ others(b).list = siblingSweep[b].list /\ others(b).got = siblingSweep[b].got
          /\ others(b).pruned = siblingSweep[b].pruned /\ others(b).mine = siblingSweep[b].mine \cap list
    BY DEF SiblingSweep, SiblingTypeOK
  <1> HIDE DEF own, others
  <1>8. \A b \in Sweepers : /\ siblingSweep'[b] \in SiblingSweep \cup {None}
                            /\ siblingSweep[b] = None => siblingSweep'[b] = None
                            /\ siblingSweep'[b] # None =>
                               /\ siblingSweep[b] # None /\ siblingSweep'[b].stage = siblingSweep[b].stage
                               /\ siblingSweep'[b].list = siblingSweep[b].list
                               /\ siblingSweep'[b].got = siblingSweep[b].got
                               /\ siblingSweep'[b].mine \subseteq siblingSweep[b].mine
                               /\ b # by => /\ siblingSweep'[b].mine = siblingSweep[b].mine \cap list
                                            /\ siblingSweep'[b].pruned = siblingSweep[b].pruned
    BY <1>1, <1>4, <1>6, <1>7
  <1>9. siblingSweep' \in [Sweepers -> SiblingSweep \cup {None}]
    BY <1>4, <1>8
  <1> HIDE DEF list
  <1>10. SiblingTypeOK'
    BY <1>1, <1>3, <1>9 DEF SiblingTypeOK
  <1>11. /\ \A s \in SiblingServers : s \in Unprobed => s \in Unprobed' \/ siblingRec'[s] = None
         /\ \A s \in SiblingServers : Reading(s)' \subseteq Reading(s)
    <2>1. \A s \in SiblingServers : Reading(s)' \subseteq Reading(s)
      BY <1>8 DEF Reading, Sweeping
    <2>2. \A b \in Sweepers : siblingSweep[b] # None => siblingSweep'[b] # None
      BY <1>4, <1>6, <1>7, SiblingRecords
    <2>3. ASSUME NEW s \in SiblingServers, s \in Unprobed, siblingRec'[s] # None
          PROVE  s \in Unprobed'
      <3>1. PICK b \in Sweepers : Sweeping(b, s, {"probe"}) /\ s \in siblingSweep[b].mine
        BY <2>3 DEF Unprobed
      <3>2. b # by /\ s \in list
        BY <1>1, <1>3, <2>3, <3>1 DEF Sweeping
      <3>3. Sweeping(b, s, {"probe"})' /\ s \in siblingSweep'[b].mine
        BY <1>8, <2>2, <3>1, <3>2 DEF Sweeping
      <3> QED BY <3>3 DEF Unprobed
    <2> QED BY <2>1, <2>3
  <1>12. ProbedAsListed' /\ FileAsListed'
    BY <1>1, <1>3, <1>11 DEF ProbedAsListed, FileAsListed
  <1>13. TwoAreApart'
    BY <1>1, <1>11 DEF TwoAreApart
  <1>14. SweepInOrder'
    <2> SUFFICES ASSUME NEW b \in Sweepers, siblingSweep'[b] # None
                 PROVE  /\ siblingSweep'[b].mine \subseteq siblingSweep'[b].list
                        /\ \A s \in siblingSweep'[b].mine : siblingRec'[s] # None
                        /\ \A s \in SiblingServers : siblingSweep'[b].stage[s] # "done" =>
                              s \in siblingSweep'[b].list /\ ~siblingSweep'[b].pruned
      BY DEF SweepInOrder
    <2>1. siblingSweep'[b].mine \subseteq list /\ siblingSweep'[b].mine \subseteq SiblingServers
      BY <1>8 DEF list, SweepInOrder, SiblingTypeOK, SiblingSweep
    <2>2. CASE b = by
      BY <1>1, <1>3, <1>8, <2>1, <2>2 DEF SweepInOrder, list
    <2>3. CASE b # by
      BY <1>3, <1>8, <2>1, <2>3 DEF SweepInOrder
    <2> QED BY <2>2, <2>3
  <1>15. RowsAreOwn'
    BY <1>1, <1>3, <1>8 DEF RowsAreOwn, Sweeping
  <1> QED BY <1>10, <1>12, <1>13, <1>14, <1>15

(* The end of a sweep keeps the invariant.                                 *)
LEMMA EndKeeps ==
    ASSUME SiblingInv, NEW by \in Sweepers, EndSiblings(by)
    PROVE  SiblingInv'
  <1> USE DEF SiblingInv
  <1>1. /\ siblingSweep[by] # None /\ siblingSweep[by].pruned
        /\ siblingSweep' = [siblingSweep EXCEPT ![by] = None]
        /\ UNCHANGED <<siblingFleet, reports, siblingRec, apart>> /\ SaveSnapshot
    BY DEF EndSiblings
  <1>2. /\ siblingSweep' \in [Sweepers -> SiblingSweep \cup {None}] /\ siblingSweep'[by] = None
        /\ \A c \in Sweepers \ {by} : siblingSweep'[c] = siblingSweep[c]
    BY <1>1 DEF SiblingTypeOK
  <1>3. \A s \in SiblingServers : siblingSweep[by].stage[s] = "done"
    BY <1>1 DEF SweepInOrder
  <1>4. Unprobed' = Unprobed /\ \A s \in SiblingServers : Reading(s)' \subseteq Reading(s)
    BY <1>2, <1>3 DEF Unprobed, Reading, Sweeping
  <1>5. ProbedAsListed'
    BY <1>1, <1>4 DEF ProbedAsListed
  <1>6. /\ FileAsListed' /\ siblingFile'.rec \in [SiblingServers -> SiblingRecord \cup {None}]
        /\ siblingFile'.apart \in SUBSET SiblingServers
    BY <1>1, <1>5, SnapshotKeeps DEF SiblingTypeOK
  <1>7. SiblingTypeOK'
    BY <1>1, <1>2, <1>6 DEF SiblingTypeOK
  <1>8. TwoAreApart'
    BY <1>1, <1>4 DEF TwoAreApart
  <1>9. SweepInOrder' /\ RowsAreOwn'
    BY <1>1, <1>2 DEF SweepInOrder, RowsAreOwn, Sweeping
  <1> QED BY <1>5, <1>6, <1>7, <1>8, <1>9

(* Every step of sibling discovery keeps its invariant.                    *)
LEMMA SiblingStep == SiblingInv /\ [SiblingNext]_siblingVars => SiblingInv'
  <1> SUFFICES ASSUME SiblingInv, [SiblingNext]_siblingVars PROVE SiblingInv'
    OBVIOUS
  <1>1. CASE SettingsSaved
    BY <1>1, SnapshotOnly DEF SettingsSaved
  <1>2. CASE SiblingsRestart
    <2>1. /\ siblingRec' = siblingFile.rec /\ apart' = siblingFile.apart
          /\ siblingSweep' = [by \in Sweepers |-> None]
          /\ UNCHANGED <<siblingFleet, reports, siblingFile>>
      BY <1>2 DEF SiblingsRestart
    <2>2. siblingSweep' \in [Sweepers -> SiblingSweep \cup {None}]
          /\ \A by \in Sweepers : siblingSweep'[by] = None
      BY <2>1
    <2>3. SiblingTypeOK'
      BY <2>1, <2>2 DEF SiblingInv, SiblingTypeOK
    <2>4. Unprobed' = {} /\ \A s \in SiblingServers : Reading(s)' = {}
      BY <2>2 DEF Unprobed, Reading, Sweeping
    <2>5. ProbedAsListed' /\ FileAsListed'
      BY <2>1, <2>4 DEF SiblingInv, ProbedAsListed, FileAsListed
    <2>6. TwoAreApart'
      BY <2>4 DEF TwoAreApart, Sweepers
    <2>7. SweepInOrder' /\ RowsAreOwn'
      BY <2>2 DEF SweepInOrder, RowsAreOwn, Sweeping
    <2> QED BY <2>3, <2>5, <2>6, <2>7 DEF SiblingInv
  <1>3. ASSUME NEW s \in SiblingServers, SiblingFleetEdited(s) PROVE SiblingInv'
    <2>1. /\ siblingFleet' \subseteq SiblingServers
          /\ UNCHANGED <<reports, siblingRec, siblingFile, siblingSweep, apart>>
      BY <1>3 DEF SiblingFleetEdited, SiblingInv, SiblingTypeOK
    <2> QED BY <2>1 DEF SiblingInv, SiblingTypeOK, ProbedAsListed, FileAsListed, TwoAreApart,
                        SweepInOrder, RowsAreOwn, Unprobed, Reading, Sweeping
  <1>4. ASSUME NEW by \in Sweepers, SweepsNothing(by) PROVE SiblingInv'
    BY <1>4, SnapshotOnly DEF SweepsNothing
  <1>5. CASE UNCHANGED siblingVars
    BY <1>5 DEF siblingVars, SiblingInv, SiblingTypeOK, ProbedAsListed, FileAsListed, TwoAreApart,
                SweepInOrder, RowsAreOwn, Unprobed, Reading, Sweeping
  <1> QED BY <1>1, <1>2, <1>3, <1>4, <1>5, BeginKeeps, ForgetKeeps, EndKeeps, ReportKeeps, FailureKeeps,
             MergeKeeps, RecordKeeps, GivesUpKeeps DEF SiblingNext

(* The products shown of a server and the probes shown with them are of    *)
(* one report (recordSiblings).                                            *)
THEOREM ProbesMatch == SiblingSpec => [](SiblingTypeOK /\ ProbedAsListed)
  <1>1. SiblingInit => SiblingInv
    <2> SUFFICES ASSUME SiblingInit PROVE SiblingInv
      OBVIOUS
    <2>1. /\ siblingRec \in [SiblingServers -> SiblingRecord \cup {None}] /\ siblingFile.rec = siblingRec
          /\ siblingFile.apart = {} /\ \A s \in SiblingServers : siblingRec[s] = None
          /\ siblingSweep \in [Sweepers -> SiblingSweep \cup {None}]
          /\ \A by \in Sweepers : siblingSweep[by] = None
      BY DEF SiblingInit
    <2>2. SiblingTypeOK
      BY <2>1, SiblingConstants DEF SiblingInit, SiblingTypeOK
    <2>3. TwoAreApart
      BY <2>1 DEF TwoAreApart, Sweepers, Reading, Sweeping
    <2> QED BY <2>1, <2>2, <2>3 DEF SiblingInv, ProbedAsListed, FileAsListed, SweepInOrder, RowsAreOwn, Sweeping
  <1>2. SiblingInv => SiblingTypeOK /\ ProbedAsListed
    BY DEF SiblingInv
  <1> QED BY <1>1, <1>2, SiblingStep, PTL DEF SiblingSpec

-----------------------------------------------------------------------------
(* Silences.                                                               *)

(* A silence that is in memory, in its file or with a client was created.  *)
Created == \A s \in SilenceIds :
    covered[s] = {} => s \notin muted \cup mutedFile \cup announced \cup promised \cup withdrawn

(* From the write that stored it until it expires or somebody asks for its *)
(* removal, a silence is in memory and in its file.                        *)
StoredStay == (announced \cup promised) \ (asked \cup elapsed) \subseteq muted \cap mutedFile

(* What a silence told to a client covers is open only when it came back.  *)
CoveredIsQuiet == \A s \in promised \ (asked \cup elapsed) : incidents \cap covered[s] \subseteq returned

WithdrawnStaysOut == withdrawn \cap (muted \cup mutedFile) = {}

SilenceInv == SilenceTypeOK /\ Created /\ StoredStay /\ CoveredIsQuiet /\ WithdrawnStaysOut

USE DEF SilenceInv, SilenceTypeOK, Created, StoredStay, CoveredIsQuiet, WithdrawnStaysOut

(* A new silence keeps the invariant.                                      *)
LEMMA AddKeeps ==
    ASSUME SilenceInv, NEW s \in SilenceIds, NEW rules \in SUBSET SilencedRules, AddSilence(s, rules)
    PROVE  SilenceInv'
  <1>1. SilenceTypeOK'
    BY DEF AddSilence, SilencesSaved, SilencesUnsaved
  <1>2. \A t \in SilenceIds : t # s => covered'[t] = covered[t]
    BY DEF AddSilence
  <1>3. covered'[s] # {} /\ s \notin withdrawn \cup promised
    BY DEF AddSilence
  <1>4. Created' /\ WithdrawnStaysOut'
    BY <1>2, <1>3 DEF AddSilence, SilencesSaved, SilencesUnsaved
  <1>5. StoredStay'
    BY DEF AddSilence, SilencesSaved, SilencesUnsaved
  <1>6. CoveredIsQuiet'
    BY <1>2, <1>3 DEF AddSilence
  <1> QED BY <1>1, <1>4, <1>5, <1>6

(* An incident that closes under a silence keeps the invariant.            *)
LEMMA CloseKeeps ==
    ASSUME SilenceInv, NEW s \in SilenceIds, CloseCovered(s)
    PROVE  SilenceInv'
  <1>1. SilenceTypeOK' /\ Created' /\ StoredStay' /\ WithdrawnStaysOut'
    BY DEF CloseCovered, IncidentsSaved
  <1>2. CoveredIsQuiet'
    BY DEF CloseCovered
  <1> QED BY <1>1, <1>2

(* A silence withdrawn keeps the invariant.                                *)
LEMMA RemoveKeeps ==
    ASSUME SilenceInv, NEW s \in SilenceIds, RemoveSilence(s)
    PROVE  SilenceInv'
  BY DEF RemoveSilence, SilencesSaved, SilencesUnsaved

(* Pruning drops only silences that ended.                                 *)
LEMMA PruneKeeps ==
    ASSUME SilenceInv, Prune, UNCHANGED <<covered, elapsed, announced, promised, asked, withdrawn>>
    PROVE  /\ {muted', mutedFile'} \subseteq SUBSET SilenceIds
           /\ Created' /\ StoredStay' /\ WithdrawnStaysOut'
  BY DEF Prune, Active, SilencesUnsaved

(* The tracker opens what no silence in force covers.                      *)
LEMMA OpeningKeeps ==
    ASSUME SilenceInv, NEW r \in SilencedRules, OpensUnlessSilenced(r), UNCHANGED returned
    PROVE  SilenceInv'
  <1>1. /\ {muted', mutedFile'} \subseteq SUBSET SilenceIds
        /\ Created' /\ StoredStay' /\ WithdrawnStaysOut'
    BY PruneKeeps DEF OpensUnlessSilenced
  <1>2. SilenceTypeOK'
    BY <1>1 DEF OpensUnlessSilenced, IncidentsSaved
  <1>3. CoveredIsQuiet'
    BY DEF OpensUnlessSilenced, Silenced, Active
  <1> QED BY <1>1, <1>2, <1>3

(* Every step of the silences keeps their invariant.                       *)
LEMMA SilenceStep == SilenceInv /\ [SilenceNext]_silenceVars => SilenceInv'
  <1> SUFFICES ASSUME SilenceInv, [SilenceNext]_silenceVars PROVE SilenceInv'
    OBVIOUS
  <1>1. CASE ListSilences
    BY <1>1, PruneKeeps DEF ListSilences
  <1>2. CASE DashRestarts
    <2>1. SilenceTypeOK' /\ Created' /\ StoredStay' /\ WithdrawnStaysOut'
      BY <1>2 DEF DashRestarts
    <2>2. CoveredIsQuiet'
      BY <1>2 DEF DashRestarts
    <2> QED BY <2>1, <2>2
  <1>3. ASSUME NEW s \in SilenceIds, SilenceElapses(s) PROVE SilenceInv'
    BY <1>3 DEF SilenceElapses
  <1>4. ASSUME NEW r \in SilencedRules, RuleFails(r) \/ Release(r) PROVE SilenceInv'
    BY <1>4, OpeningKeeps DEF RuleFails, Release, OpensUnlessSilenced
  <1>5. ASSUME NEW r \in SilencedRules, RulePasses(r) PROVE SilenceInv'
    BY <1>5 DEF RulePasses, IncidentsSaved
  <1>6. CASE UNCHANGED silenceVars
    BY <1>6 DEF silenceVars
  <1> QED BY <1>1, <1>2, <1>3, <1>4, <1>5, <1>6, AddKeeps, CloseKeeps, RemoveKeeps DEF SilenceNext

(* A silence a client was told of is in force, in memory and on disk,      *)
(* until it expires or somebody asks for its removal; nothing it covers is *)
(* open unless a restart brought it back; one removed with success never   *)
(* returns (handleSilences, alertSilenced).                                *)
THEOREM SilencesHold == SilenceSpec => [](SilenceTypeOK /\ SilencedStaysQuiet)
  <1>1. SilenceInit => SilenceInv
    BY DEF SilenceInit
  <1>2. SilenceInv => SilenceTypeOK /\ SilencedStaysQuiet
    BY DEF SilencedStaysQuiet
  <1> QED BY <1>1, <1>2, SilenceStep, PTL DEF SilenceSpec

HIDE DEF SilenceInv, SilenceTypeOK, Created, StoredStay, CoveredIsQuiet, WithdrawnStaysOut

-----------------------------------------------------------------------------
(* All that watches the fleet.                                             *)

(* A behaviour of the whole is a behaviour of each.                        *)
LEMMA EachWatches ==
    WatchingSpec => /\ MonitorSpec /\ DomainSpec /\ HoldSpec /\ SilenceSpec /\ ChannelSpec
                   /\ HeartbeatSpec /\ CleanupSpec /\ LinkSpec /\ SiblingSpec
  <1>1. WatchingInit => /\ MonitorInit /\ DomainInit /\ HoldInit /\ SilenceInit /\ ChannelInit
                      /\ HeartbeatInit /\ CleanupInit /\ LinkInit /\ SiblingInit
    BY DEF WatchingInit
  <1>2. [WatchingNext]_watchingVars => [MonitorNext]_monitorVars
    BY Zenon DEF WatchingNext, watchingVars
  <1>3. [WatchingNext]_watchingVars => [DomainNext]_domainVars
    BY Zenon DEF WatchingNext, watchingVars
  <1>4. [WatchingNext]_watchingVars => [HoldNext]_holdVars
    BY Zenon DEF WatchingNext, watchingVars
  <1>5. [WatchingNext]_watchingVars => [SilenceNext]_silenceVars
    BY Zenon DEF WatchingNext, watchingVars
  <1>6. [WatchingNext]_watchingVars => [ChannelNext]_channelVars
    BY Zenon DEF WatchingNext, watchingVars
  <1>7. [WatchingNext]_watchingVars => [HeartbeatNext]_heartbeatVars
    BY Zenon DEF WatchingNext, watchingVars
  <1>8. [WatchingNext]_watchingVars => [CleanupNext]_cleanupVars
    BY Zenon DEF WatchingNext, watchingVars
  <1>9. [WatchingNext]_watchingVars => [LinkNext]_linkVars
    BY Zenon DEF WatchingNext, watchingVars
  <1>10. [WatchingNext]_watchingVars => [SiblingNext]_siblingVars
    BY Zenon DEF WatchingNext, watchingVars
  <1> QED BY <1>1, <1>2, <1>3, <1>4, <1>5, <1>6, <1>7, <1>8, <1>9, <1>10, PTL
        DEF WatchingSpec, MonitorSpec, DomainSpec, HoldSpec, SilenceSpec, ChannelSpec, HeartbeatSpec,
            CleanupSpec, LinkSpec, SiblingSpec

(* What each of the nine keeps to.                                         *)
THEOREM WatchingIsTyped == WatchingSpec => []WatchingTypeOK
  <1>1. MonitorInv => MonitorTypeOK
    BY DEF MonitorInv
  <1>2. MonitorTypeOK /\ DomainTypeOK /\ HoldTypeOK /\ SilenceTypeOK /\ ChannelTypeOK
        /\ HeartbeatTypeOK /\ CleanupTypeOK /\ LinkTypeOK /\ SiblingTypeOK => WatchingTypeOK
    BY DEF WatchingTypeOK
  <1> QED BY <1>1, <1>2, EachWatches, MonitorInvariance, RetiredRightly, HoldsAreBounded, SilencesHold,
             OpeningsAreTold, OutcomesAreForgotten, DismissalsStand, KeysAreRecorded, ProbesMatch, PTL

(* An incident is retired on evidence, and probes are shown with the       *)
(* products they were made for unless sweeps overlapped, whatever reads    *)
(* fail (domains.go, siblings.go).                                         *)
THEOREM ConclusionsRest == WatchingSpec => []RestsOnEvidence
  <1>1. RetiredOnEvidence /\ ProbedAsListed => RestsOnEvidence
    BY DEF RestsOnEvidence
  <1> QED BY <1>1, EachWatches, RetiredRightly, ProbesMatch, PTL

(* A silence holds until it ends and a dismissal until a complete audit    *)
(* does not list the finding, over failed writes, audits and restarts; a   *)
(* forgotten receiver has no result until a ping that began before ends,   *)
(* and none that begins later gives it one (alerting.go, cleanup.go,       *)
(* heartbeat.go).                                                          *)
THEOREM WishesStand == WatchingSpec => []StaysAsAsked
  <1>1. SilencedStaysQuiet /\ DismissedStaysHidden /\ ForgottenStaysForgotten => StaysAsAsked
    BY DEF StaysAsAsked
  <1> QED BY <1>1, EachWatches, SilencesHold, DismissalsStand, OutcomesAreForgotten, PTL

(* A hold ends, and what opened while nobody could be told is announced    *)
(* (alerting.go).                                                          *)
THEOREM AlertsAreNotKept == WatchingSpec => []AlertsGoOut
  <1>1. HoldsEnd /\ OpenIsAnnounced => AlertsGoOut
    BY DEF AlertsGoOut
  <1> QED BY <1>1, EachWatches, HoldsAreBounded, OpeningsAreTold, PTL
=============================================================================
