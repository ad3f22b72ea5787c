------------------------------- MODULE Groups -------------------------------
(***************************************************************************)
(* The owner's groups and projects of apps: groups.json, which several     *)
(* dash processes on one host change (server.go, membership.go).  A change *)
(* is read, made and saved under the process's mutex and a lock on         *)
(* groups.json.lock.  What a request wants is chosen when it is applied:   *)
(* nothing before depends on it.                                           *)
(***************************************************************************)
EXTENDS Absence, Filtering, FiniteSets, SequencesExt

CONSTANTS
    Dashes,         \* dash processes that share the file
    GroupNames,     \* names of groups and of projects
    GroupApps,      \* app names
    BoundServers,   \* envelope ids of configured servers
    MaxGroupWrites  \* bound: changes that reach the file

ASSUME GroupConstants ==
    None \notin Dashes \cup GroupNames \cup BoundServers /\ MaxGroupWrites \in Nat

VARIABLES
    groupsFile,     \* groups.json
    lockedBy,       \* the process that holds groups.json.lock
    loaded,         \* the document a process has read, None outside a change
    applied,        \* history: the changes that reached the file, one after the other
    groupWrites     \* their number

groupVars == <<groupsFile, lockedBy, loaded, applied, groupWrites>>

(* A member is an app bound to a server, or to None: an entry by its name. *)
Members == [app: GroupApps, server: BoundServers \cup {None}]
Project == [name: GroupNames, members: SUBSET Members]
AppGroup == [name: GroupNames, members: SUBSET Members, projects: Seq(Project)]

(* project is None in a request on the group itself.                       *)
GroupRequests ==
    [op: {"create", "delete", "rename", "assign", "unassign"}, group: GroupNames,
     project: GroupNames \cup {None}, to: GroupNames, member: Members, legacy: BOOLEAN]

-----------------------------------------------------------------------------
(* What a request does to a document: its result, None when it refuses.    *)

Position(entries, name) == SelectInSeq(entries, LAMBDA e : e.name = name)
Without(entries, name) == Filtered(entries, {e \in ToSet(entries) : e.name # name})

Created(entries, new) ==
    IF Position(entries, new.name) > 0 THEN None ELSE Append(entries, new)

Renamed(entries, from, to) ==
    IF Position(entries, from) = 0 \/ (to # from /\ Position(entries, to) > 0) THEN None
    ELSE [entries EXCEPT ![Position(entries, from)].name = to]

(* removeMembership.  Without a server (and not asking for the entry by    *)
(* name) the app must be bound once, or not at all.                        *)
Unassigned(members, q) ==
    LET bare == [q.member EXCEPT !.server = None]
        bound == {m \in members \ {bare} : m.app = q.member.app} IN
    CASE q.member.server # None -> IF q.legacy THEN None ELSE members \ {q.member}
      [] q.member.server = None /\ (q.legacy \/ bound = {}) -> members \ {bare}
      [] OTHER -> IF Cardinality(bound) > 1 \/ bare \in members THEN None ELSE members \ bound

(* assignProjectMembership assigns the app to the group as well.           *)
Assigned(q, g) ==
    IF q.project = None THEN [g EXCEPT !.members = @ \cup {q.member}]
    ELSE [g EXCEPT !.members = @ \cup {q.member},
                   !.projects[Position(g.projects, q.project)].members = @ \cup {q.member}]

(* removeGroupMembership takes it from the list that is named.             *)
Removed(q, g) ==
    LET j == Position(g.projects, q.project)
        rest == Unassigned(IF q.project = None THEN g.members ELSE g.projects[j].members, q) IN
    CASE rest = None -> None
      [] rest # None /\ q.project = None -> [g EXCEPT !.members = rest]
      [] OTHER -> [g EXCEPT !.projects[j].members = rest]

(* handleGroups and handleGroupAction on one list of names.                *)
Listed(q, entries, name, new) ==
    CASE q.op = "create" -> Created(entries, new)
      [] q.op = "delete" -> Without(entries, name)
      [] q.op = "rename" -> Renamed(entries, name, q.to)

(* What a request makes of the group it names.                             *)
GroupChanged(q, g) ==
    LET known == q.project = None \/ Position(g.projects, q.project) > 0
        projects == Listed(q, g.projects, q.project, [name |-> q.project, members |-> {}]) IN
    CASE q.op = "assign" -> IF known THEN Assigned(q, g) ELSE None
      [] q.op = "unassign" -> IF known THEN Removed(q, g) ELSE None
      [] OTHER -> IF projects = None THEN None ELSE [g EXCEPT !.projects = projects]

OnGroups(q) == q.project = None /\ q.op \notin {"assign", "unassign"}

Changed(q, d) ==
    LET i == Position(d, q.group) IN
    IF OnGroups(q) THEN Listed(q, d, q.group, [name |-> q.group, members |-> {}, projects |-> <<>>])
    ELSE IF i = 0 \/ GroupChanged(q, d[i]) = None THEN None
    ELSE [d EXCEPT ![i] = GroupChanged(q, d[i])]

-----------------------------------------------------------------------------
(* updateGroups: the lock, the change, the save.                           *)

Unlocked(d) == /\ loaded' = [loaded EXCEPT ![d] = None]
               /\ lockedBy' = IF lockedBy = d THEN None ELSE lockedBy

(* Mutant: the processes' own mutexes are taken to be enough.              *)
LoadUnlocked(d) ==
    /\ loaded[d] = None
    /\ loaded' = [loaded EXCEPT ![d] = groupsFile]
    /\ UNCHANGED <<groupsFile, lockedBy, applied, groupWrites>>

(* The mutex of the process, the lock between processes, and the read.     *)
LoadGroups(d) ==
    /\ loaded[d] = None /\ lockedBy = None
    /\ lockedBy' = d
    /\ loaded' = [loaded EXCEPT ![d] = groupsFile]
    /\ UNCHANGED <<groupsFile, applied, groupWrites>>

(* The change is saved, and the answer may still be an error when only the *)
(* last step of the save failed.                                           *)
SaveGroups(d) ==
    /\ loaded[d] # None /\ groupWrites < MaxGroupWrites
    /\ \E q \in GroupRequests :
          /\ Changed(q, loaded[d]) # None
          /\ groupsFile' = Changed(q, loaded[d])
          /\ applied' = Changed(q, applied)
    /\ groupWrites' = groupWrites + 1
    /\ Unlocked(d)

(* The request is refused, the save fails before it replaces the file, or  *)
(* the process dies, and its locks with it.                                *)
LeaveGroups(d) ==
    /\ loaded[d] # None
    /\ Unlocked(d) /\ UNCHANGED <<groupsFile, applied, groupWrites>>

GroupInit ==
    /\ groupsFile = <<>> /\ applied = <<>> /\ lockedBy = None /\ groupWrites = 0
    /\ loaded = [d \in Dashes |-> None]

GroupNext == \E d \in Dashes : LoadGroups(d) \/ SaveGroups(d) \/ LeaveGroups(d)

GroupSpec == GroupInit /\ [][GroupNext]_groupVars

-----------------------------------------------------------------------------
(* Properties                                                              *)

GroupTypeOK ==
    /\ groupsFile \in Seq(AppGroup) /\ loaded \in [Dashes -> Seq(AppGroup) \cup {None}]
    /\ lockedBy \in Dashes \cup {None} /\ groupWrites \in 0..MaxGroupWrites

(* "Atomic replacement prevents torn FILES, not lost UPDATES"              *)
(* (groupsMu, lockGroupsFile): the file is what its changes make one after *)
(* the other, whichever process made them.                                 *)
WritesAddUp == groupsFile = applied

Distinct(entries) == \A i, j \in 1..Len(entries) : entries[i].name = entries[j].name => i = j

(* Two entries of one name would be deleted together (R12): names stay     *)
(* distinct over creations and renames of any order and any process.       *)
OneEntryPerName == Distinct(groupsFile) /\ \A i \in 1..Len(groupsFile) : Distinct(groupsFile[i].projects)
=============================================================================
