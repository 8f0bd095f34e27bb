----------------------------- MODULE LdapGroupSync -----------------------------
(***************************************************************************)
(* LdapKeycloakSyncService copies the groups of the directory (LDAP) and   *)
(* their members to Keycloak.  What Keycloak holds it knows only from the  *)
(* cache in Redis: the list of all groups, and per group its members.      *)
(* GroupsService fills that cache from Keycloak, but only while no LDAP    *)
(* sync is active.  A sync runs one task per group in parallel; every step *)
(* below is what happens between two awaits, so tasks, polling, other      *)
(* syncs and direct updates interleave at each of them.                    *)
(*                                                                         *)
(* A directory entry is its path (two entries with one CN are left out), a *)
(* nested group stands flattened to its users, attributes and the school   *)
(* lists are left out, but the commands that rewrite a cache entry for the *)
(* sake of the attributes are not.  The calls of one user in               *)
(* updateUserGroups are one step.                                          *)
(***************************************************************************)
EXTENDS Naturals, FiniteSets

CONSTANTS
  Users,
  Paths,           \* of groups
  AdminPaths,      \* the groups of the global settings a sync never deletes
  Calls,           \* calls of sync() under way at a time (a bound)
  NoGroup,         \* no such group, or no such entry in the cache
  MaximumRetries,  \* attempts of polling to read the members of a group
  MaxFailures,     \* failed requests to LDAP and Keycloak (a bound)
  MaxChanges       \* changes of the directory and direct updates (a bound)

ASSUME LdapGroupSyncAssumption ==
  /\ AdminPaths \subseteq Paths
  /\ \A group \in SUBSET Users : group # NoGroup
  /\ MaximumRetries \in Nat \ {0}
  /\ MaxFailures \in Nat
  /\ MaxChanges \in Nat

VARIABLES
  ldap,            \* path -> users of the group in the directory
  keycloak,        \* path -> users of the group in Keycloak
  list,            \* the groups in the cached list of all groups
  members,         \* path -> users of the cached group with members
  ldapSyncActive,  \* GroupsService: polling is suspended
  initialized,     \* groupsCacheInitialized, groupsCacheReady, usersCacheReady
  targetKnown,     \* deploymentTarget has been read
  isSyncRunning,
  sync,            \* the calls of sync()
  task,            \* call -> path -> the task of that group
  poll,            \* updateGroupsAndMembersInCache
  direct,          \* path -> the direct update of that group
  failures,
  changes,
  clean,           \* the calls nothing interfered with, see Disturb
  quiet            \* the calls during which the directory did not change

world  == <<ldap, direct, changes>>
flags  == <<ldapSyncActive, initialized, targetKnown, isSyncRunning>>
vars == <<world, keycloak, list, members, flags, sync, task, poll, failures, clean, quiet>>

-----------------------------------------------------------------------------
(* Types *)

Group == {NoGroup} \cup SUBSET Users

Phase == {"idle", "target", "search", "groups", "attributes", "attributesWrite",
          "apply", "delete", "finish"}

\* Pairs <<user, path>>.
Updates == SUBSET (Users \X Paths)

\* dns: the groups found in the directory; byPath: groupsByPath; adds and
\* removes: the 'updates'; list: what updateAllGroupsAttributesInCache read.
Sync == [pc: Phase, dns: SUBSET Paths, byPath: SUBSET Paths, list: SUBSET Paths,
         adds: Updates, removes: Updates]

TaskPc == {"none", "ensure", "create", "search", "addList", "attributes", "attributesWrite",
           "diff", "write", "delete", "drop"}

\* list and members: what the task read and will write back.
Task == [pc: TaskPc, list: SUBSET Paths, members: Group]

\* attempt: of tryUpdateGroupsWithMembersInCache.
PollTask == [pc: {"none", "fetch", "write"}, members: Group, attempt: 1..MaximumRetries]

Poll == [pc: {"idle", "fetch", "list", "members"}, groups: SUBSET Paths, task: [Paths -> PollTask]]

\* list: what addGroupToCache read, as in a task.
Direct == [pc: {"none", "create", "search", "addList", "apply"}, list: SUBSET Paths]

NoTask == [pc |-> "none", list |-> {}, members |-> NoGroup]
NoDirect == [pc |-> "none", list |-> {}]
NoPollTask == [pc |-> "none", members |-> NoGroup, attempt |-> 1]
IdleSync == [pc |-> "idle", dns |-> {}, byPath |-> {}, list |-> {}, adds |-> {}, removes |-> {}]
IdlePoll == [pc |-> "idle", groups |-> {}, task |-> [p \in Paths |-> NoPollTask]]

\* Every variable holds what the code can put there; a task only works on a
\* group the directory listed, and deletes only a listed group it did not find.
GroupSyncTypeOK ==
  /\ ldap \in [Paths -> Group] /\ keycloak \in [Paths -> Group]
  /\ list \in SUBSET Paths /\ members \in [Paths -> Group]
  /\ ldapSyncActive \in BOOLEAN /\ initialized \in BOOLEAN
  /\ targetKnown \in BOOLEAN /\ isSyncRunning \in BOOLEAN
  /\ sync \in [Calls -> Sync] /\ task \in [Calls -> [Paths -> Task]]
  /\ poll \in Poll /\ direct \in [Paths -> Direct]
  /\ failures \in 0..MaxFailures /\ changes \in 0..MaxChanges
  /\ clean \in [Calls -> BOOLEAN] /\ quiet \in [Calls -> BOOLEAN]

Init ==
  /\ ldap \in [Paths -> Group] /\ keycloak \in [Paths -> Group]
  /\ list = {} /\ members = [p \in Paths |-> NoGroup]
  /\ ldapSyncActive = FALSE /\ initialized = FALSE
  /\ targetKnown = FALSE /\ isSyncRunning = FALSE
  /\ sync = [s \in Calls |-> IdleSync]
  /\ task = [s \in Calls |-> [p \in Paths |-> NoTask]]
  /\ poll = IdlePoll /\ direct = [p \in Paths |-> NoDirect]
  /\ failures = 0 /\ changes = 0
  /\ clean = [s \in Calls |-> FALSE] /\ quiet = [s \in Calls |-> FALSE]

-----------------------------------------------------------------------------
(* Helpers *)

Groups == {p \in Paths : keycloak[p] # NoGroup}

\* getCachedGroupMembers.
Cached(p) == IF members[p] = NoGroup THEN {} ELSE members[p]

TasksDone(s) == \A p \in Paths : task[s][p].pc = "none"

\* A call past the check of isSyncRunning and not yet in its 'finally'.
Running(s) == sync[s].pc \notin {"idle", "target"}

Goto(s, pc) == sync' = [sync EXCEPT ![s].pc = pc]

TaskGoto(s, p, pc) == task' = [task EXCEPT ![s][p].pc = pc]

TaskEnds(s, p) == task' = [task EXCEPT ![s][p] = NoTask]

\* A request to LDAP or Keycloak fails for no reason of this program.
FailureHappens == failures < MaxFailures /\ failures' = failures + 1

Disturb == clean' = [s \in Calls |-> FALSE]

\* The catch and the finally of call s.  Tasks that are under way go on.
Throw(s) ==
  /\ IF Running(s)
     THEN /\ Goto(s, "idle")
          /\ ldapSyncActive' = FALSE
          /\ isSyncRunning' = FALSE
     ELSE UNCHANGED <<sync, ldapSyncActive, isSyncRunning>>
  /\ Disturb
  /\ UNCHANGED <<initialized, targetKnown, quiet>>

TaskThrows(s, p) == TaskEnds(s, p) /\ Throw(s)

-----------------------------------------------------------------------------
(* sync(): up to the tasks *)

\* init() finds the LDAP component; its one request is answered before polling,
\* which needs several, has filled the cache.
LdapInit ==
  /\ ~initialized
  /\ ldapSyncActive' = TRUE
  /\ UNCHANGED <<world, keycloak, list, members, initialized, targetKnown, isSyncRunning,
                 sync, task, poll, failures, clean, quiet>>

\* loadLdapConfig finds no LDAP component.
SyncNoConfig(s) ==
  /\ sync[s].pc = "idle" /\ TasksDone(s) /\ FailureHappens
  /\ ldapSyncActive' = FALSE
  /\ UNCHANGED <<world, keycloak, list, members, initialized, targetKnown, isSyncRunning,
                 sync, task, poll, clean, quiet>>

SetRunning ==
  isSyncRunning' = TRUE /\ ldapSyncActive' = TRUE /\ targetKnown' = TRUE /\ Disturb

\* The checks, then getDeploymentTarget, which awaits the cache the first time only.
SyncStart(s) ==
  /\ sync[s].pc = "idle" /\ TasksDone(s)
  /\ initialized /\ ~isSyncRunning
  /\ IF targetKnown
     THEN sync' = [sync EXCEPT ![s] = [IdleSync EXCEPT !.pc = "search"]] /\ SetRunning
     ELSE sync' = [sync EXCEPT ![s] = [IdleSync EXCEPT !.pc = "target"]]
          /\ UNCHANGED <<isSyncRunning, ldapSyncActive, targetKnown, clean>>
  /\ UNCHANGED <<world, keycloak, list, members, initialized, task, poll, failures, quiet>>

SyncTarget(s) ==
  /\ sync[s].pc = "target"
  /\ SetRunning /\ Goto(s, "search")
  /\ UNCHANGED <<world, keycloak, list, members, initialized, task, poll, failures, quiet>>

\* Nobody else works on the groups, and the cache is what Keycloak holds.
StartsClean(s) ==
  /\ poll.pc = "idle"
  /\ \A c \in Calls : TasksDone(c) /\ (c # s => ~Running(c))
  /\ list = Groups
  /\ \A p \in list : Cached(p) = keycloak[p]

\* searchAllGroups and the cached list; an empty list ends the call at once.
SyncSearch(s) ==
  /\ sync[s].pc = "search"
  /\ LET dns == {p \in Paths : ldap[p] # NoGroup} IN
     IF list = {}
     THEN /\ Goto(s, "idle")
          /\ isSyncRunning' = FALSE
          /\ UNCHANGED <<task, clean, quiet>>
     ELSE /\ sync' = [sync EXCEPT ![s].pc = "groups", ![s].dns = dns, ![s].byPath = list]
          /\ task' = [task EXCEPT ![s] = [p \in Paths |->
                        IF p \in dns THEN [NoTask EXCEPT !.pc = "ensure"] ELSE NoTask]]
          /\ clean' = [clean EXCEPT ![s] = StartsClean(s)]
          /\ quiet' = [quiet EXCEPT ![s] = TRUE]
          /\ UNCHANGED isSyncRunning
  /\ UNCHANGED <<world, keycloak, list, members, ldapSyncActive, initialized, targetKnown,
                 poll, failures>>

\* The bind, a search or persistLastSync fails.
SyncFails(s) ==
  /\ sync[s].pc \in {"search", "finish"}
  /\ FailureHappens
  /\ Throw(s)
  /\ UNCHANGED <<world, keycloak, list, members, task, poll>>

-----------------------------------------------------------------------------
(* The task of one group *)

\* ensureKeycloakGroupUsingCache: known to the call or to the cached list, or created.
TaskEnsure(s, p) ==
  /\ task[s][p].pc = "ensure"
  /\ TaskGoto(s, p, IF p \in sync[s].byPath \cup list THEN "attributes" ELSE "create")
  /\ UNCHANGED <<world, keycloak, list, members, flags, sync, poll, failures, clean, quiet>>

\* createGroup is refused when Keycloak has a group of that name.
TaskCreate(s, p) ==
  /\ task[s][p].pc = "create"
  /\ IF keycloak[p] = NoGroup
     THEN /\ keycloak' = [keycloak EXCEPT ![p] = {}]
          /\ TaskGoto(s, p, "search")
          /\ UNCHANGED <<flags, sync, clean, quiet>>
     ELSE TaskThrows(s, p) /\ UNCHANGED keycloak
  /\ UNCHANGED <<world, list, members, poll, failures>>

\* searchGroupsByName, then addGroupToCache reads the list.
TaskSearch(s, p) ==
  /\ task[s][p].pc = "search"
  /\ IF keycloak[p] # NoGroup
     THEN /\ task' = [task EXCEPT ![s][p].pc = "addList", ![s][p].list = list]
          /\ sync' = [sync EXCEPT ![s].byPath = @ \cup {p}]
          /\ UNCHANGED <<flags, clean, quiet>>
     ELSE TaskThrows(s, p)
  /\ UNCHANGED <<world, keycloak, list, members, poll, failures>>

\* addGroupToCache writes the list it read, with the new group.
TaskAddList(s, p) ==
  /\ task[s][p].pc = "addList"
  /\ list' = task[s][p].list \cup {p}
  /\ members' = [members EXCEPT ![p] = {}]
  /\ TaskGoto(s, p, "attributes")
  /\ UNCHANGED <<world, keycloak, flags, sync, poll, failures, clean, quiet>>

\* updateGroupAttributesInCache reads the cached group, and writes it back if there is one.
TaskAttributes(s, p) ==
  /\ task[s][p].pc = "attributes"
  /\ task' = [task EXCEPT ![s][p].pc = IF members[p] = NoGroup THEN "diff" ELSE "attributesWrite",
                          ![s][p].members = members[p]]
  /\ UNCHANGED <<world, keycloak, list, members, flags, sync, poll, failures, clean, quiet>>

TaskAttributesWrite(s, p) ==
  /\ task[s][p].pc = "attributesWrite"
  /\ members' = [members EXCEPT ![p] = task[s][p].members]
  /\ TaskGoto(s, p, "diff")
  /\ UNCHANGED <<world, keycloak, list, flags, sync, poll, failures, clean, quiet>>

\* Faulty variant: the difference taken the wrong way round.
MissingSwapped(p, desired) == Cached(p) \ desired

\* toAdd.
Missing(p, desired) == desired \ Cached(p)

\* fetchMembers and the comparison with the cached members; the search throws
\* when the group is gone from the directory.
TaskDiff(s, p) ==
  /\ task[s][p].pc = "diff"
  /\ LET desired == ldap[p]
         missing == Missing(p, desired)
         surplus == Cached(p) \ desired IN
     IF desired = NoGroup
     THEN TaskThrows(s, p)
     ELSE /\ sync' = [sync EXCEPT ![s].adds = @ \cup (missing \X {p}),
                                  ![s].removes = @ \cup (surplus \X {p})]
          /\ IF missing \cup surplus = {}
             THEN TaskEnds(s, p)
             ELSE task' = [task EXCEPT ![s][p].pc = "write", ![s][p].members = desired]
          /\ UNCHANGED <<flags, clean, quiet>>
  /\ UNCHANGED <<world, keycloak, list, members, poll, failures>>

\* updateGroupWithMembersInCache: before Keycloak is told.
TaskWrite(s, p) ==
  /\ task[s][p].pc = "write"
  /\ members' = [members EXCEPT ![p] = task[s][p].members]
  /\ TaskEnds(s, p)
  /\ UNCHANGED <<world, keycloak, list, flags, sync, poll, failures, clean, quiet>>

\* A request of the task fails; the failures of createGroup, of a search, of
\* deleteGroup and of the cache are not caught.
TaskFails(s, p) ==
  /\ task[s][p].pc \in {"ensure", "create", "search", "diff", "write", "delete"}
  /\ FailureHappens
  /\ TaskThrows(s, p)
  /\ UNCHANGED <<world, keycloak, list, members, poll>>

-----------------------------------------------------------------------------
(* sync(): after the tasks *)

\* updateAllGroupsAttributesInCache reads the list, when a group had attributes.
SyncAttributes(s) ==
  /\ sync[s].pc = "groups" /\ TasksDone(s)
  /\ sync' = [sync EXCEPT ![s].pc = IF sync[s].dns = {} THEN "apply" ELSE "attributesWrite",
                          ![s].list = list]
  /\ UNCHANGED <<world, keycloak, list, members, flags, task, poll, failures, clean, quiet>>

SyncAttributesWrite(s) ==
  /\ sync[s].pc = "attributesWrite"
  /\ list' = sync[s].list
  /\ sync' = [sync EXCEPT ![s].pc = "apply", ![s].list = {}]
  /\ UNCHANGED <<world, keycloak, members, flags, task, poll, failures, clean, quiet>>

\* updateUserGroups told Keycloak to add u to the groups 'added' and to take u
\* out of 'removed'.
Applied(u, added, removed) ==
  keycloak' = [p \in Paths |->
    IF keycloak[p] = NoGroup THEN NoGroup
    ELSE IF p \in removed THEN keycloak[p] \ {u}
    ELSE IF p \in added THEN keycloak[p] \cup {u}
    ELSE keycloak[p]]

\* applyUpdatesDeduped, one user.  A failed request is only logged; after a
\* failed addition u is taken out of no group.
SyncApply(s, u) ==
  LET adds == {p \in Paths : <<u, p>> \in sync[s].adds}
      removes == {p \in Paths : <<u, p>> \in sync[s].removes} IN
  /\ sync[s].pc = "apply"
  /\ adds \cup removes # {}
  /\ \/ /\ \A p \in adds : keycloak[p] # NoGroup
        /\ Applied(u, adds \ removes, removes \ adds) /\ UNCHANGED <<failures, clean>>
     \/ /\ \E p \in adds : keycloak[p] = NoGroup
        /\ Applied(u, adds, {}) /\ Disturb /\ UNCHANGED failures
     \/ /\ FailureHappens /\ Disturb
        /\ \E done \in SUBSET adds : Applied(u, done, {})
     \/ /\ FailureHappens /\ Disturb
        /\ \E done \in SUBSET removes : Applied(u, adds, done)
  /\ sync' = [sync EXCEPT ![s].adds = @ \ ({u} \X Paths), ![s].removes = @ \ ({u} \X Paths)]
  /\ UNCHANGED <<world, list, members, flags, task, poll, quiet>>

\* Faulty variant: admin groups that are not in the directory are deleted, too.
ToDeleteAdmins(s) == sync[s].byPath \ sync[s].dns

\* Faulty variant: the difference taken the wrong way round.
ToDeleteSwapped(s) == (sync[s].dns \ sync[s].byPath) \ AdminPaths

\* toDeletePaths without the admin groups.
ToDelete(s) == (sync[s].byPath \ sync[s].dns) \ AdminPaths

SyncDelete(s) ==
  /\ sync[s].pc = "apply" /\ sync[s].adds = {} /\ sync[s].removes = {}
  /\ Goto(s, "delete")
  /\ task' = [task EXCEPT ![s] = [p \in Paths |->
                IF p \in ToDelete(s) THEN [NoTask EXCEPT !.pc = "delete"] ELSE NoTask]]
  /\ UNCHANGED <<world, keycloak, list, members, flags, poll, failures, clean, quiet>>

\* deleteGroup, refused when it is gone, then deleteGroupFromCache reads the list.
TaskDelete(s, p) ==
  /\ task[s][p].pc = "delete"
  /\ IF keycloak[p] # NoGroup
     THEN /\ keycloak' = [keycloak EXCEPT ![p] = NoGroup]
          /\ task' = [task EXCEPT ![s][p].pc = "drop", ![s][p].list = list]
          /\ UNCHANGED <<flags, sync, clean, quiet>>
     ELSE TaskThrows(s, p) /\ UNCHANGED keycloak
  /\ UNCHANGED <<world, list, members, poll, failures>>

\* deleteGroupFromCache writes the list it read, without the group.
TaskDrop(s, p) ==
  /\ task[s][p].pc = "drop"
  /\ list' = task[s][p].list \ {p}
  /\ members' = [members EXCEPT ![p] = NoGroup]
  /\ TaskEnds(s, p)
  /\ UNCHANGED <<world, keycloak, flags, sync, poll, failures, clean, quiet>>

SyncDeleted(s) ==
  /\ sync[s].pc = "delete" /\ TasksDone(s)
  /\ Goto(s, "finish")
  /\ UNCHANGED <<world, keycloak, list, members, flags, task, poll, failures, clean, quiet>>

\* persistLastSync, unbind and the finally.
SyncFinish(s) ==
  /\ sync[s].pc = "finish"
  /\ sync' = [sync EXCEPT ![s] = IdleSync]
  /\ isSyncRunning' = FALSE
  /\ UNCHANGED <<world, keycloak, list, members, ldapSyncActive, initialized, targetKnown,
                 task, poll, failures, clean, quiet>>

-----------------------------------------------------------------------------
(* GroupsService: polling of Keycloak *)

PollStart ==
  /\ ~(ldapSyncActive /\ initialized)
  /\ poll.pc = "idle"
  /\ poll' = [poll EXCEPT !.pc = "fetch"]
  /\ Disturb
  /\ UNCHANGED <<world, keycloak, list, members, flags, sync, task, failures, quiet>>

PollFetch ==
  /\ poll.pc = "fetch"
  /\ poll' = [poll EXCEPT !.pc = "list", !.groups = Groups]
  /\ UNCHANGED <<world, keycloak, list, members, flags, sync, task, failures, clean, quiet>>

PollList ==
  /\ poll.pc = "list"
  /\ list' = poll.groups
  /\ poll' = [poll EXCEPT !.pc = "members", !.groups = {},
              !.task = [p \in Paths |->
                IF p \in poll.groups THEN [NoPollTask EXCEPT !.pc = "fetch"] ELSE NoPollTask]]
  /\ UNCHANGED <<world, keycloak, members, flags, sync, task, failures, clean, quiet>>

\* fetchGroupMembers; all attempts fail for a group that is gone.
PollMembers(p) ==
  /\ poll.pc = "members" /\ poll.task[p].pc = "fetch"
  /\ IF keycloak[p] # NoGroup
     THEN poll' = [poll EXCEPT !.task[p].pc = "write", !.task[p].members = keycloak[p]]
     ELSE poll' = [poll EXCEPT !.task[p] = NoPollTask]
  /\ UNCHANGED <<world, keycloak, list, members, flags, sync, task, failures, clean, quiet>>

\* Faulty variant: one attempt too many.
RetriesOnceMore(attempt) == attempt <= MaximumRetries

\* A group that failed is read again, maximumRetries times in all.
Retries(attempt) == attempt < MaximumRetries

PollMembersFail(p) ==
  /\ poll.pc = "members" /\ poll.task[p].pc = "fetch"
  /\ FailureHappens
  /\ poll' = [poll EXCEPT !.task[p] = IF Retries(poll.task[p].attempt)
                                     THEN [poll.task[p] EXCEPT !.attempt = @ + 1]
                                     ELSE NoPollTask]
  /\ UNCHANGED <<world, keycloak, list, members, flags, sync, task, clean, quiet>>

PollWrite(p) ==
  /\ poll.pc = "members" /\ poll.task[p].pc = "write"
  /\ members' = [members EXCEPT ![p] = poll.task[p].members]
  /\ poll' = [poll EXCEPT !.task[p] = NoPollTask]
  /\ UNCHANGED <<world, keycloak, list, flags, sync, task, failures, clean, quiet>>

\* The first time, GROUPS_CACHE_INITIALIZED_EVENT makes the sync possible.
PollDone ==
  /\ poll.pc = "members" /\ \A p \in Paths : poll.task[p].pc = "none"
  /\ poll' = IdlePoll
  /\ initialized' = TRUE
  /\ UNCHANGED <<world, keycloak, list, members, ldapSyncActive, targetKnown, isSyncRunning,
                 sync, task, failures, clean, quiet>>

PollFails ==
  /\ poll.pc \in {"fetch", "list"}
  /\ FailureHappens
  /\ poll' = IdlePoll
  /\ UNCHANGED <<world, keycloak, list, members, flags, sync, task, clean, quiet>>

-----------------------------------------------------------------------------
(* The environment, and the updates the LMN API asks for directly *)

LdapChange(p) ==
  /\ changes < MaxChanges /\ changes' = changes + 1
  /\ \E group \in Group \ {ldap[p]} : ldap' = [ldap EXCEPT ![p] = group]
  /\ quiet' = [s \in Calls |-> FALSE]
  /\ UNCHANGED <<keycloak, list, members, flags, sync, task, poll, direct, failures, clean>>

DirectGoto(p, pc) == direct' = [direct EXCEPT ![p].pc = pc]

DirectEnds(p) == direct' = [direct EXCEPT ![p] = NoDirect]

\* updateGroupMembershipByNames or reconcileNamedGroupMembers begins: a group that the
\* cached list does not have is created first.
DirectBegin(p) ==
  /\ changes < MaxChanges /\ changes' = changes + 1
  /\ direct[p].pc = "none"
  /\ DirectGoto(p, IF p \in list THEN "apply" ELSE "create")
  /\ UNCHANGED <<ldap, keycloak, list, members, flags, sync, task, poll, failures, clean, quiet>>

\* createGroup; the update ends when it is refused.
DirectCreate(p) ==
  /\ direct[p].pc = "create"
  /\ IF keycloak[p] = NoGroup
     THEN keycloak' = [keycloak EXCEPT ![p] = {}] /\ DirectGoto(p, "search") /\ Disturb
     ELSE DirectEnds(p) /\ UNCHANGED <<keycloak, clean>>
  /\ UNCHANGED <<ldap, list, members, flags, sync, task, poll, failures, changes, quiet>>

\* searchGroupsByName, then addGroupToCache reads the list.
DirectSearch(p) ==
  /\ direct[p].pc = "search"
  /\ IF keycloak[p] # NoGroup
     THEN direct' = [direct EXCEPT ![p] = [pc |-> "addList", list |-> list]]
     ELSE DirectEnds(p)
  /\ UNCHANGED <<ldap, keycloak, list, members, flags, sync, task, poll, failures, changes, clean, quiet>>

\* addGroupToCache writes the list it read, with the new group.
DirectAddList(p) ==
  /\ direct[p].pc = "addList"
  /\ list' = direct[p].list \cup {p}
  /\ members' = [members EXCEPT ![p] = {}]
  /\ direct' = [direct EXCEPT ![p] = [NoDirect EXCEPT !.pc = "apply"]]
  /\ Disturb
  /\ UNCHANGED <<ldap, keycloak, flags, sync, task, poll, failures, changes, quiet>>

\* Keycloak is told, the cache is not; the failure of a request is only logged.
DirectApply(p, add, remove) ==
  /\ direct[p].pc = "apply"
  /\ keycloak' = IF keycloak[p] = NoGroup THEN keycloak
                 ELSE [keycloak EXCEPT ![p] = (@ \cup add) \ remove]
  /\ DirectEnds(p)
  /\ Disturb
  /\ UNCHANGED <<ldap, list, members, flags, sync, task, poll, failures, changes, quiet>>

UpdateMembership(p) == \E add, remove \in SUBSET Users : DirectApply(p, add, remove)

Reconcile(p) ==
  \E desired \in SUBSET Users : DirectApply(p, desired \ Cached(p), Cached(p) \ desired)

\* A request to Keycloak or to the cache fails.
DirectFails(p) ==
  /\ direct[p].pc \in {"create", "search", "addList"}
  /\ FailureHappens
  /\ DirectEnds(p)
  /\ UNCHANGED <<ldap, keycloak, list, members, flags, sync, task, poll, changes, clean, quiet>>

-----------------------------------------------------------------------------

TaskStep(s, p) ==
  \/ TaskEnsure(s, p) \/ TaskCreate(s, p) \/ TaskSearch(s, p) \/ TaskAddList(s, p)
  \/ TaskAttributes(s, p) \/ TaskAttributesWrite(s, p) \/ TaskDiff(s, p) \/ TaskWrite(s, p)
  \/ TaskDelete(s, p) \/ TaskDrop(s, p) \/ TaskFails(s, p)

SyncStep(s) ==
  \/ SyncNoConfig(s) \/ SyncStart(s) \/ SyncTarget(s) \/ SyncSearch(s) \/ SyncFails(s)
  \/ SyncAttributes(s) \/ SyncAttributesWrite(s) \/ SyncDelete(s) \/ SyncDeleted(s)
  \/ SyncFinish(s)

PollStep ==
  \/ PollStart \/ PollFetch \/ PollList \/ PollDone \/ PollFails
  \/ \E p \in Paths : PollMembers(p) \/ PollMembersFail(p) \/ PollWrite(p)

DirectStep(p) ==
  \/ DirectBegin(p) \/ DirectCreate(p) \/ DirectSearch(p) \/ DirectAddList(p)
  \/ UpdateMembership(p) \/ Reconcile(p) \/ DirectFails(p)

Next ==
  \/ LdapInit
  \/ \E s \in Calls : SyncStep(s) \/ (\E p \in Paths : TaskStep(s, p))
                                \/ (\E u \in Users : SyncApply(s, u))
  \/ PollStep
  \/ \E p \in Paths : LdapChange(p) \/ DirectStep(p)

Spec == Init /\ [][Next]_vars

-----------------------------------------------------------------------------
(* Properties *)

\* sync(): when no request failed, the cache held what Keycloak holds, and nobody
\* else worked on the groups, the cached members of the groups of the directory
\* are those in Keycloak after the updates, even if the directory changed meanwhile.
CacheFollows ==
  \A s \in Calls : sync[s].pc = "finish" /\ clean[s] =>
    \A p \in sync[s].dns : Cached(p) = keycloak[p]

\* sync(): if the directory did not change either, Keycloak has its groups with
\* its members, and beside them only admin groups.
SyncDelivers ==
  \A s \in Calls : sync[s].pc = "finish" /\ clean[s] /\ quiet[s] =>
    \A p \in Paths : /\ ldap[p] # NoGroup => keycloak[p] = ldap[p]
                     /\ ldap[p] = NoGroup /\ p \notin AdminPaths => keycloak[p] = NoGroup

\* adminGroupNames: whatever fails or overlaps, an admin group stays in Keycloak.
AdminGroupsKept ==
  [][\A p \in AdminPaths : keycloak[p] # NoGroup => keycloak'[p] # NoGroup]_vars

=============================================================================
